---- MODULE Spec2Model ----
(***************************************************************************)
(* Cycle model of risky: the two-state RV32I core (risky/cpu.py, with the  *)
(* Zicsr and Zicntr extensions) driving a Rom and a Ram (risky/memory.py)  *)
(* through the memory map's address decoder.                               *)
(*                                                                         *)
(* A signal of width w is a sequence of w bits, least significant bit      *)
(* first, so Amaranth's Cat is \o and the slice x[a:b] is                  *)
(* SubSeq(x, a + 1, b).  One step of the model is one clock edge.          *)
(***************************************************************************)
EXTENDS Integers, Sequences, FiniteSets, TLC

\* ------------------------------------------------------------------------
\* Bounds of the model
\* ------------------------------------------------------------------------

\* number of clock edges explored from reset
MaxTicks == 26
\* number of chunks given to the SHA1 device
MaxChunks == 2
\* address width (in words) of the Rom that holds the program
RomAddrWidth == 2
\* address width (in words) of the Ram
RamAddrWidth == 1

\* ------------------------------------------------------------------------
\* Bit vectors
\* ------------------------------------------------------------------------

xlen == 32

Bit == {0, 1}

Pow2(n) == 2 ^ n

\* Each operator below binds its vector operands once (x \in {v}) and
\* returns a finished tuple, so that its cost does not depend on how its
\* operands were computed.

\* value of a bit vector of at most 30 bits
ToNat(v) ==
    CHOOSE n \in {LET f[k \in 0..Len(x)] ==
                        IF k = 0 THEN 0 ELSE x[k] * Pow2(k - 1) + f[k - 1]
                  IN  f[Len(x)] : x \in {v}} : TRUE

\* the natural number n < 2^31 as a bit vector of width w
FromNat(n, w) ==
    CHOOSE r \in {SubSeq([i \in 1..w |-> IF i > 31 THEN 0 ELSE (m \div Pow2(i - 1)) % 2],
                         1, w) : m \in {n}} : TRUE

Zeros(w) == SubSeq([i \in 1..w |-> 0], 1, w)

\* Value.replicate / a one-bit signal repeated w times
Replicate(b, w) == CHOOSE r \in {SubSeq([i \in 1..w |-> c], 1, w) : c \in {b}} : TRUE

\* x[a:b]
Slice(v, a, b) == SubSeq(v, a + 1, b)

\* assignment of v to a signal of width w: truncate or zero-extend
ZeroExt(v, w) ==
    CHOOSE r \in {SubSeq([i \in 1..w |-> IF i <= Len(x) THEN x[i] ELSE 0], 1, w)
                  : x \in {v}} : TRUE

\* assignment of a signed v to a signal of width w: truncate or sign-extend
SignExt(v, w) ==
    CHOOSE r \in {SubSeq([i \in 1..w |-> IF i <= Len(x) THEN x[i] ELSE x[Len(x)]], 1, w)
                  : x \in {v}} : TRUE

\* x[::-1]
Reverse(v) ==
    CHOOSE r \in {SubSeq([i \in 1..Len(x) |-> x[Len(x) + 1 - i]], 1, Len(x))
                  : x \in {v}} : TRUE

Not(v) ==
    CHOOSE r \in {SubSeq([i \in 1..Len(x) |-> 1 - x[i]], 1, Len(x)) : x \in {v}} : TRUE

And(a, b) ==
    CHOOSE r \in {SubSeq([i \in 1..Len(x) |-> x[i] * y[i]], 1, Len(x))
                  : x \in {a}, y \in {b}} : TRUE

Or(a, b) ==
    CHOOSE r \in {SubSeq([i \in 1..Len(x) |-> IF x[i] + y[i] > 0 THEN 1 ELSE 0], 1, Len(x))
                  : x \in {a}, y \in {b}} : TRUE

Xor(a, b) ==
    CHOOSE r \in {SubSeq([i \in 1..Len(x) |-> (x[i] + y[i]) % 2], 1, Len(x))
                  : x \in {a}, y \in {b}} : TRUE

\* a 32-bit constant from its two 16-bit halves
Word(hi, lo) == FromNat(lo, 16) \o FromNat(hi, 16)

\* a + b on 32-bit operands, wrapped to 32 bits
Add32(a, b) ==
    CHOOSE r \in {FromNat(lo % 65536, 16) \o FromNat((hi + lo \div 65536) % 65536, 16)
                  : lo \in {ToNat(Slice(a, 0, 16)) + ToNat(Slice(b, 0, 16))},
                    hi \in {ToNat(Slice(a, 16, 32)) + ToNat(Slice(b, 16, 32))}} : TRUE

\* a - b on unsigned 32-bit operands, as a 33-bit two's complement result
Sub33(a, b) ==
    CHOOSE r \in {LET bl == IF lo < 0 THEN 1 ELSE 0
                      h == hi - bl
                      bh == IF h < 0 THEN 1 ELSE 0
                  IN  FromNat(lo + 65536 * bl, 16) \o FromNat(h + 65536 * bh, 16) \o <<bh>>
                  : lo \in {ToNat(Slice(a, 0, 16)) - ToNat(Slice(b, 0, 16))},
                    hi \in {ToNat(Slice(a, 16, 32)) - ToNat(Slice(b, 16, 32))}} : TRUE

\* variant: the carry of the increment does not cross bit 32
Inc_NoCarry32(v) ==
    CHOOSE r \in {SubSeq([i \in 1..Len(x) |->
                            IF i <= 32 /\ \A j \in 1..(i - 1) : x[j] = 1
                            THEN 1 - x[i] ELSE x[i]],
                         1, Len(x)) : x \in {v}} : TRUE

\* v + 1 wrapped to the width of v: a bit flips when all bits below it are 1
Inc(v) ==
    CHOOSE r \in {SubSeq([i \in 1..Len(x) |->
                            IF \A j \in 1..(i - 1) : x[j] = 1 THEN 1 - x[i] ELSE x[i]],
                         1, Len(x)) : x \in {v}} : TRUE

\* arithmetic right shift of the signed vector v by n, same width
ShiftRightSigned(v, n) ==
    CHOOSE r \in {SubSeq([i \in 1..Len(x) |-> IF i + k <= Len(x) THEN x[i + k] ELSE x[Len(x)]],
                         1, Len(x)) : x \in {v}, k \in {n}} : TRUE

\* logical right shift of the unsigned vector v by n, same width
ShiftRight(v, n) ==
    CHOOSE r \in {SubSeq([i \in 1..Len(x) |-> IF i + k <= Len(x) THEN x[i + k] ELSE 0],
                         1, Len(x)) : x \in {v}, k \in {n}} : TRUE

\* v << n, with the n extra bits Amaranth gives the result
ShiftLeft(v, n) == Zeros(n) \o v

IsZero(v) == \A x \in {v} : \A i \in 1..Len(x) : x[i] = 0

\* ------------------------------------------------------------------------
\* risky/instruction.py
\* ------------------------------------------------------------------------

OP_LOAD == 3
OP_MISC_MEM == 15
OP_OP_IMM == 19
OP_AUIPC == 23
OP_STORE == 35
OP_OP == 51
OP_LUI == 55
OP_BRANCH == 99
OP_JALR == 103
OP_JAL == 111
OP_SYSTEM == 115

\* field views of the Instruction struct
op(i) == ToNat(Slice(i, 0, 7))
rd(i) == ToNat(Slice(i, 7, 12))
funct3(i) == ToNat(Slice(i, 12, 15))
rs1f(i) == ToNat(Slice(i, 15, 20))
rs2f(i) == ToNat(Slice(i, 20, 25))
funct7(i) == ToNat(Slice(i, 25, 32))

\* immediates, each sign-extended to xlen as the core uses them
imm_i(i) == SignExt(Slice(i, 20, 32), xlen)

imm_s(i) == SignExt(Slice(i, 7, 12) \o Slice(i, 25, 32), xlen)

imm_b(i) ==
    LET imm_12__10_5 == Slice(i, 25, 32)
        imm_4_1__11 == Slice(i, 7, 12)
        imm_12 == <<imm_12__10_5[7]>>
        imm_10_5 == Slice(imm_12__10_5, 0, 6)
        imm_4_1 == Slice(imm_4_1__11, 1, 5)
        imm_11 == <<imm_4_1__11[1]>>
    IN  SignExt(<<0>> \o imm_4_1 \o imm_10_5 \o imm_11 \o imm_12, xlen)

imm_u(i) == ZeroExt(ShiftLeft(Slice(i, 12, 32), 12), xlen)

imm_j(i) ==
    LET f == Slice(i, 12, 32)
        imm_19_12 == Slice(f, 0, 8)
        imm_11 == <<f[9]>>
        imm_10_1 == Slice(f, 9, 19)
        imm_20 == <<f[20]>>
    IN  SignExt(<<0>> \o imm_10_1 \o imm_11 \o imm_19_12 \o imm_20, xlen)

\* ------------------------------------------------------------------------
\* risky/cpu.py: Alu
\* ------------------------------------------------------------------------

ADD == 0
SUB == 1
SHIFT_LL == 2
SHIFT_RL == 3
SHIFT_RA == 4
LT == 5
LTU == 6
EQ == 7
XOR == 8
OR == 9
AND == 10

\* variant: LT is the borrow of the subtraction, whatever the signs
AluOut_LtFromBorrow(in1, in2, aop, shift_amount) ==
    LET minus == Sub33(in1, in2)
        plus == Add32(in1, in2)
        eq == IF IsZero(Slice(minus, 0, 32)) THEN 1 ELSE 0
        ltu == minus[33]
        lt == minus[33]
        shift_in == IF aop = SHIFT_LL THEN Reverse(in1) ELSE in1
        top == IF aop = SHIFT_RA THEN shift_in[32] ELSE 0
        rightshift == ShiftRightSigned(shift_in \o <<top>>, shift_amount)
        leftshift == Reverse(Slice(rightshift, 0, 32))
    IN  CASE aop = ADD -> plus
          [] aop = SUB -> Slice(minus, 0, 32)
          [] aop = SHIFT_LL -> leftshift
          [] aop = SHIFT_RL -> Slice(rightshift, 0, 32)
          [] aop = SHIFT_RA -> Slice(rightshift, 0, 32)
          [] aop = LT -> ZeroExt(<<lt>>, xlen)
          [] aop = LTU -> ZeroExt(<<ltu>>, xlen)
          [] aop = EQ -> ZeroExt(<<eq>>, xlen)
          [] aop = XOR -> Xor(in1, in2)
          [] aop = OR -> Or(in1, in2)
          [] aop = AND -> And(in1, in2)
          [] OTHER -> Zeros(xlen)

\* variant: the arithmetic right shift fills with 0
AluOut_NoSignFill(in1, in2, aop, shift_amount) ==
    LET minus == Sub33(in1, in2)
        plus == Add32(in1, in2)
        eq == IF IsZero(Slice(minus, 0, 32)) THEN 1 ELSE 0
        ltu == minus[33]
        lt == IF in1[32] # in2[32] THEN in1[32] ELSE minus[33]
        shift_in == IF aop = SHIFT_LL THEN Reverse(in1) ELSE in1
        top == 0
        rightshift == ShiftRightSigned(shift_in \o <<top>>, shift_amount)
        leftshift == Reverse(Slice(rightshift, 0, 32))
    IN  CASE aop = ADD -> plus
          [] aop = SUB -> Slice(minus, 0, 32)
          [] aop = SHIFT_LL -> leftshift
          [] aop = SHIFT_RL -> Slice(rightshift, 0, 32)
          [] aop = SHIFT_RA -> Slice(rightshift, 0, 32)
          [] aop = LT -> ZeroExt(<<lt>>, xlen)
          [] aop = LTU -> ZeroExt(<<ltu>>, xlen)
          [] aop = EQ -> ZeroExt(<<eq>>, xlen)
          [] aop = XOR -> Xor(in1, in2)
          [] aop = OR -> Or(in1, in2)
          [] aop = AND -> And(in1, in2)
          [] OTHER -> Zeros(xlen)

\* Alu.elaborate: out as a function of in1, in2, op and shift_amount
AluOut(in1, in2, aop, shift_amount) ==
    LET minus == Sub33(in1, in2)
        plus == Add32(in1, in2)
        eq == IF IsZero(Slice(minus, 0, 32)) THEN 1 ELSE 0
        ltu == minus[33]
        lt == IF in1[32] # in2[32] THEN in1[32] ELSE minus[33]
        shift_in == IF aop = SHIFT_LL THEN Reverse(in1) ELSE in1
        top == IF aop = SHIFT_RA THEN shift_in[32] ELSE 0
        rightshift == ShiftRightSigned(shift_in \o <<top>>, shift_amount)
        leftshift == Reverse(Slice(rightshift, 0, 32))
    IN  CASE aop = ADD -> plus
          [] aop = SUB -> Slice(minus, 0, 32)
          [] aop = SHIFT_LL -> leftshift
          [] aop = SHIFT_RL -> Slice(rightshift, 0, 32)
          [] aop = SHIFT_RA -> Slice(rightshift, 0, 32)
          [] aop = LT -> ZeroExt(<<lt>>, xlen)
          [] aop = LTU -> ZeroExt(<<ltu>>, xlen)
          [] aop = EQ -> ZeroExt(<<eq>>, xlen)
          [] aop = XOR -> Xor(in1, in2)
          [] aop = OR -> Or(in1, in2)
          [] aop = AND -> And(in1, in2)
          [] OTHER -> Zeros(xlen)

\* ------------------------------------------------------------------------
\* State
\* ------------------------------------------------------------------------

VARIABLES
    state,      \* Cpu.state: "FETCH_INSTR" or "EXECUTE"
    pc,         \* Cpu.pc
    instr,      \* Cpu.instr
    rs1,        \* Cpu.rs1, the latched value of regs[instr.rs1]
    rs2,        \* Cpu.rs2, the latched value of regs[instr.rs2]
    regs,       \* Cpu.regs, the 32 registers
    cycle,      \* Zicntr.cycle (64 bits)
    instret,    \* Zicntr.instret (64 bits)
    rom_mem,    \* Rom.memory
    rom_rdata,  \* data register of the Rom's synchronous read port
    rom_ack,    \* Rom's bus.ack register
    ram_mem,    \* Ram.memory
    ram_rdata,  \* data register of the Ram's synchronous read port
    ram_state,  \* Ram's state: "READ" or "WRITE"
    ram_ack,    \* Ram's bus.ack register
    sha1,       \* peripherals/sha1.py: the registers of Device
    uart        \* peripherals/uart.py: the registers of Unbuffered

cpu_vars == <<state, pc, instr, rs1, rs2, regs>>
cnt_vars == <<cycle, instret>>
rom_vars == <<rom_mem, rom_rdata, rom_ack>>
ram_vars == <<ram_mem, ram_rdata, ram_state, ram_ack>>
dev_vars == <<sha1, uart>>
vars == <<state, pc, instr, rs1, rs2, regs, cycle, instret,
          rom_mem, rom_rdata, rom_ack, ram_mem, ram_rdata, ram_state, ram_ack,
          sha1, uart>>

RomDepth == Pow2(RomAddrWidth)
RamDepth == Pow2(RamAddrWidth)

\* ------------------------------------------------------------------------
\* risky/cpu.py: Cpu, combinational part
\* ------------------------------------------------------------------------

BYTE == 0
HALF == 1
WORD == 2
BYTE_U == 4
HALF_U == 5

NORMAL == 0
ALT == 32

Four == FromNat(4, xlen)

\* rs1 + imm_i, the address of a load
LoadDest == Add32(rs1, imm_i(instr))

\* rs1 + imm_s, the address of a store
StoreDest == Add32(rs1, imm_s(instr))

\* the address of the data access of the instruction in instr
Dest == IF op(instr) = OP_STORE THEN StoreDest ELSE LoadDest

\* variant: the load/store address and strobes not confined to EXECUTE
IsMemOp_AnyState == op(instr) \in {OP_LOAD, OP_STORE}

IsMemOp == state = "EXECUTE" /\ op(instr) \in {OP_LOAD, OP_STORE}

\* bus.adr: pc[2:] by default and in FETCH, dest[2:] for a load or store
BusAdr == IF IsMemOp THEN Slice(Dest, 2, 32) ELSE Slice(pc, 2, 32)

\* variant: cyc driven only by a load or store
BusCyc_ExecuteOnly == IF IsMemOp THEN 1 ELSE 0


\* bus.cyc, bus.stb: driven in FETCH and in the EXECUTE of a load or store
BusCyc == IF state = "FETCH_INSTR" \/ IsMemOp THEN 1 ELSE 0
BusStb == BusCyc

\* bus.we: only a store drives it
BusWe == IF state = "EXECUTE" /\ op(instr) = OP_STORE THEN 1 ELSE 0

\* variant: the byte select ignores the low bits of the address
SelByte_Lane0(dest) == <<1, 0, 0, 0>>

\* 1 << dest[:2], as assigned to the 4-bit bus.sel
SelByte(dest) == ZeroExt(ShiftLeft(<<1>>, ToNat(Slice(dest, 0, 2))), 4)

\* 0b11 << (dest[:2] & 0b10), as assigned to the 4-bit bus.sel
SelHalf(dest) == ZeroExt(ShiftLeft(<<1, 1>>, 2 * dest[2]), 4)

\* bus.sel: 1111 unless a load or store of a recognized width narrows it
BusSel ==
    IF ~IsMemOp THEN <<1, 1, 1, 1>>
    ELSE IF op(instr) = OP_LOAD THEN
        CASE funct3(instr) \in {BYTE, BYTE_U} -> SelByte(LoadDest)
          [] funct3(instr) \in {HALF, HALF_U} -> SelHalf(LoadDest)
          [] OTHER -> <<1, 1, 1, 1>>
    ELSE
        CASE funct3(instr) = BYTE -> SelByte(StoreDest)
          [] funct3(instr) = HALF -> SelHalf(StoreDest)
          [] OTHER -> <<1, 1, 1, 1>>

\* variant: the byte or half to store is not replicated into the upper lanes
BusDatW_NoReplicate ==
    IF state = "EXECUTE" /\ op(instr) = OP_STORE THEN
        CASE funct3(instr) = BYTE -> ZeroExt(Slice(rs2, 0, 8), xlen)
          [] funct3(instr) = HALF -> ZeroExt(Slice(rs2, 0, 16), xlen)
          [] funct3(instr) = WORD -> rs2
          [] OTHER -> Zeros(xlen)
    ELSE Zeros(xlen)

\* bus.dat_w: rs2 replicated into the lanes of a store, 0 otherwise
BusDatW ==
    IF state = "EXECUTE" /\ op(instr) = OP_STORE THEN
        CASE funct3(instr) = BYTE ->
                Slice(rs2, 0, 8) \o Slice(rs2, 0, 8) \o Slice(rs2, 0, 8) \o Slice(rs2, 0, 8)
          [] funct3(instr) = HALF -> Slice(rs2, 0, 16) \o Slice(rs2, 0, 16)
          [] funct3(instr) = WORD -> rs2
          [] OTHER -> Zeros(xlen)
    ELSE Zeros(xlen)

\* ------------------------------------------------------------------------
\* risky/memory.py: MemoryMap (the address decoder), Rom, Ram
\* ------------------------------------------------------------------------

\* word address of the Ram window: byte address 0x10000000, the second
\* window of a map aligned to 2^28 bytes; the Rom window is at 0
RamBaseAdr == SubSeq([i \in 1..30 |-> IF i = 27 THEN 1 ELSE 0], 1, 30)

\* the decoder selects a window when the address bits above the window's
\* own address width match the window's base
RomSelected == Slice(BusAdr, RomAddrWidth, 30) = Zeros(30 - RomAddrWidth)
RamSelected == Slice(BusAdr, RamAddrWidth, 30) = Slice(RamBaseAdr, RamAddrWidth, 30)

\* cyc as seen by each memory: the controller's cyc, gated by the decoder
RomCyc == IF RomSelected THEN BusCyc ELSE 0
RamCyc == IF RamSelected THEN BusCyc ELSE 0

\* adr as seen by each memory: the low bits of the controller's adr
RomAdr == ToNat(Slice(BusAdr, 0, RomAddrWidth))
RamAdr == ToNat(Slice(BusAdr, 0, RamAddrWidth))

\* bus.ack and bus.dat_r as seen by the controller: those of the selected
\* memory, 0 when the address is in no window
BusAck == IF RomSelected THEN rom_ack ELSE IF RamSelected THEN ram_ack ELSE 0
BusDatR ==
    IF RomSelected THEN rom_rdata ELSE IF RamSelected THEN ram_rdata ELSE Zeros(xlen)

\* Rom.elaborate
RomDoWrite == RomCyc * BusWe * BusStb
RomDoRead == RomCyc * (1 - BusWe) * BusStb

\* variant: ack not cleared after an acknowledged cycle
RomAckNext_NoClear == IF RomDoRead + RomDoWrite > 0 THEN 1 ELSE 0

RomAckNext == IF RomDoRead + RomDoWrite > 0 /\ rom_ack = 0 THEN 1 ELSE 0

\* variant: the Rom stores the written word
RomTick_Writable ==
    /\ rom_rdata' = IF RomDoRead = 1 THEN rom_mem[RomAdr] ELSE rom_rdata
    /\ rom_ack' = RomAckNext
    /\ rom_mem' = IF RomDoWrite = 1 THEN [rom_mem EXCEPT ![RomAdr] = BusDatW] ELSE rom_mem

RomTick ==
    /\ rom_rdata' = IF RomDoRead = 1 THEN rom_mem[RomAdr] ELSE rom_rdata
    /\ rom_ack' = RomAckNext
    /\ rom_mem' = rom_mem

\* Ram.elaborate
RamDoWrite == RamCyc * BusWe * BusStb
RamDoRead == RamCyc * (1 - BusWe) * BusStb

\* mask: each bit of bus.sel widened to its byte lane
SelMask(sel) ==
    CHOOSE r \in {SubSeq([i \in 1..xlen |-> x[((i - 1) \div 8) + 1]], 1, xlen)
                  : x \in {sel}} : TRUE

\* internal_write_data = (read.data & ~mask) | (bus.dat_w & mask)
RamWriteData(rdata, datw, sel) ==
    Or(And(rdata, Not(SelMask(sel))), And(datw, SelMask(sel)))

\* variant: the write port enabled in both states of the Ram
RamWriteEn_AnyState == RamDoWrite = 1


\* variant: no read of the addressed word ahead of a write
RamReadEn_ReadOnly == RamDoRead = 1

RamReadEn == RamDoRead = 1 \/ (ram_state = "READ" /\ RamDoWrite = 1)
RamWriteEn == ram_state = "WRITE" /\ RamDoWrite = 1

\* variant: the Ram acknowledges reads only
RamAckNext_ReadsOnly == IF RamDoRead = 1 /\ ram_ack = 0 THEN 1 ELSE 0


\* variant: the ack of a write raised one state late
RamAckNext_Late ==
    IF ram_state = "WRITE" /\ RamDoWrite = 1 THEN 1
    ELSE IF RamDoRead = 1 /\ ram_ack = 0 THEN 1
    ELSE 0

\* variant: the ack of a read not cleared after the acknowledged cycle
RamAckNext_NoClear ==
    IF ram_state = "READ" /\ RamDoWrite = 1 THEN 1
    ELSE IF RamDoRead = 1 THEN 1
    ELSE 0

RamAckNext ==
    IF ram_state = "READ" /\ RamDoWrite = 1 THEN 1
    ELSE IF RamDoRead = 1 /\ ram_ack = 0 THEN 1
    ELSE 0

RamStateNext ==
    IF ram_state = "READ"
    THEN (IF RamDoWrite = 1 THEN "WRITE" ELSE "READ")
    ELSE "READ"

RamTick ==
    /\ ram_rdata' = IF RamReadEn THEN ram_mem[RamAdr] ELSE ram_rdata
    /\ ram_mem' = IF RamWriteEn
                  THEN [ram_mem EXCEPT ![RamAdr] = RamWriteData(ram_rdata, BusDatW, BusSel)]
                  ELSE ram_mem
    /\ ram_ack' = RamAckNext
    /\ ram_state' = RamStateNext

\* ------------------------------------------------------------------------
\* risky/cpu.py: Zicsr and Zicntr, combinational part
\* ------------------------------------------------------------------------

RW == 1
RS == 2
RC == 3
RWI == 5
RSI == 6
RCI == 7

\* the instruction in EXECUTE is a Zicsr instruction
IsCsrInstr ==
    /\ state = "EXECUTE"
    /\ op(instr) = OP_SYSTEM
    /\ funct3(instr) \in {RW, RS, RC, RWI, RSI, RCI}

\* csr_addr = instr.imm_i as a 12-bit unsigned value
CsrAddr == ToNat(Slice(instr, 20, 32))

\* variant: CSRRW and CSRRWI read the CSR even when rd is x0
CsrReadEn_Always == IF IsCsrInstr THEN 1 ELSE 0

\* csr_read_en
CsrReadEn ==
    IF ~IsCsrInstr THEN 0
    ELSE IF funct3(instr) \in {RW, RWI} THEN (IF rd(instr) # 0 THEN 1 ELSE 0)
    ELSE 1

\* csr_write_en
CsrWriteEn ==
    IF ~IsCsrInstr THEN 0
    ELSE IF funct3(instr) \in {RW, RWI} THEN 1
    ELSE IF rs1f(instr) # 0 THEN 1 ELSE 0

\* variant: the high addresses read the low half of the counter
CsrReadData_LowOnly ==
    CASE CsrAddr \in {3072, 3073, 3200, 3201} -> Slice(cycle, 0, 32)
      [] CsrAddr \in {3074, 3202} -> Slice(instret, 0, 32)
      [] OTHER -> Zeros(xlen)

\* csr_read_data, driven by Zicntr for the six counter addresses
CsrReadData ==
    CASE CsrAddr = 3072 -> Slice(cycle, 0, 32)
      [] CsrAddr = 3073 -> Slice(cycle, 0, 32)
      [] CsrAddr = 3074 -> Slice(instret, 0, 32)
      [] CsrAddr = 3200 -> Slice(cycle, 32, 64)
      [] CsrAddr = 3201 -> Slice(cycle, 32, 64)
      [] CsrAddr = 3202 -> Slice(instret, 32, 64)
      [] OTHER -> Zeros(xlen)

\* uimm: the rs1 field as an immediate, zero-extended to xlen
uimm == ZeroExt(FromNat(rs1f(instr), 5), xlen)

\* modify, setbits and new, as the case of the instruction's funct3 drives
\* them; 0, 0 and rs1 outside the EXECUTE of a Zicsr instruction
CsrModify == IF IsCsrInstr /\ funct3(instr) \in {RS, RC, RSI, RCI} THEN 1 ELSE 0
CsrSetBits == IF IsCsrInstr /\ funct3(instr) \in {RW, RS, RWI, RSI} THEN 1 ELSE 0
CsrNew == IF IsCsrInstr /\ funct3(instr) \in {RWI, RSI, RCI} THEN uimm ELSE rs1

\* variant: the clear forms do not invert the mask
CsrWriteData_NoInvert ==
    LET old == IF CsrModify = 1 THEN CsrReadData ELSE Zeros(xlen)
    IN  IF CsrSetBits = 1 THEN Or(CsrNew, old) ELSE And(CsrNew, old)

\* csr_write_data = Mux(setbits, new | old, ~new & old),
\* with old = Mux(modify, csr_read_data, 0)
CsrWriteData ==
    LET old == IF CsrModify = 1 THEN CsrReadData ELSE Zeros(xlen)
    IN  IF CsrSetBits = 1 THEN Or(CsrNew, old) ELSE And(Not(CsrNew), old)

\* variant: the counters declared readable and writable
CsrValid_Writable ==
    /\ CsrAddr \in {3072, 3073, 3074, 3200, 3201, 3202}
    /\ (CsrReadEn = 1 \/ CsrWriteEn = 1)

\* valid_csr(write=False) under the six cases of Zicntr
CsrValid ==
    /\ CsrAddr \in {3072, 3073, 3074, 3200, 3201, 3202}
    /\ CsrReadEn = 1
    /\ CsrWriteEn = 0

\* ------------------------------------------------------------------------
\* risky/cpu.py: Cpu.execute, combinational part
\* ------------------------------------------------------------------------

EBREAK == Word(16, 115)
ECALL == Word(0, 115)

\* alu.op as selected by the instruction in instr
AluOpSel ==
    LET f3 == funct3(instr)
        f7 == funct7(instr)
    IN  CASE op(instr) = OP_BRANCH ->
                (CASE f3 \in {0, 1} -> EQ
                   [] f3 \in {4, 5} -> LT
                   [] f3 \in {6, 7} -> LTU
                   [] OTHER -> ADD)
          [] op(instr) = OP_OP_IMM ->
                (CASE f3 = 0 -> ADD
                   [] f3 = 2 -> LT
                   [] f3 = 3 -> LTU
                   [] f3 = 4 -> XOR
                   [] f3 = 6 -> OR
                   [] f3 = 7 -> AND
                   [] f3 = 1 /\ f7 = NORMAL -> SHIFT_LL
                   [] f3 = 5 /\ f7 = NORMAL -> SHIFT_RL
                   [] f3 = 5 /\ f7 = ALT -> SHIFT_RA
                   [] OTHER -> ADD)
          [] op(instr) = OP_OP ->
                (CASE f3 = 0 /\ f7 = NORMAL -> ADD
                   [] f3 = 0 /\ f7 = ALT -> SUB
                   [] f3 = 1 /\ f7 = NORMAL -> SHIFT_LL
                   [] f3 = 2 /\ f7 = NORMAL -> LT
                   [] f3 = 3 /\ f7 = NORMAL -> LTU
                   [] f3 = 4 /\ f7 = NORMAL -> XOR
                   [] f3 = 5 /\ f7 = NORMAL -> SHIFT_RL
                   [] f3 = 5 /\ f7 = ALT -> SHIFT_RA
                   [] f3 = 6 /\ f7 = NORMAL -> OR
                   [] f3 = 7 /\ f7 = NORMAL -> AND
                   [] OTHER -> ADD)
          [] OTHER -> ADD

AluIn1 == IF op(instr) = OP_AUIPC THEN pc ELSE rs1

AluIn2 ==
    CASE op(instr) = OP_AUIPC -> imm_u(instr)
      [] op(instr) = OP_JALR /\ funct3(instr) = 0 -> imm_i(instr)
      [] op(instr) = OP_OP_IMM -> imm_i(instr)
      [] OTHER -> rs2

\* alu.shift_amount: instr.rs2, or the low bits of rs2 for the shifts of OP
AluShiftAmount ==
    IF op(instr) = OP_OP /\ AluOpSel \in {SHIFT_LL, SHIFT_RL, SHIFT_RA}
    THEN ToNat(Slice(rs2, 0, 5))
    ELSE rs2f(instr)

alu_out == AluOut(AluIn1, AluIn2, AluOpSel, AluShiftAmount)

\* variant: BGE and BGEU branch on the condition of BLT and BLTU
BranchTaken_GeAsLt ==
    /\ op(instr) = OP_BRANCH
    /\ \/ funct3(instr) \in {0, 4, 5, 6, 7} /\ alu_out[1] = 1
       \/ funct3(instr) = 1 /\ alu_out[1] = 0

\* the predicate of the branch in instr holds
BranchTaken ==
    /\ op(instr) = OP_BRANCH
    /\ \/ funct3(instr) \in {0, 4, 6} /\ alu_out[1] = 1
       \/ funct3(instr) \in {1, 5, 7} /\ alu_out[1] = 0

\* variant: only a load or store of a recognized width waits for the ack
Stalled_RecognizedOnly ==
    /\ IsMemOp
    /\ BusAck = 0
    /\ \/ op(instr) = OP_LOAD /\ funct3(instr) \in {BYTE, HALF, WORD, BYTE_U, HALF_U}
       \/ op(instr) = OP_STORE /\ funct3(instr) \in {BYTE, HALF, WORD}

\* a load or store in EXECUTE that sees no ack stalls
Stalled == IsMemOp /\ BusAck = 0

\* variant: a stalled load or store does not hold the pc
pc_inc_NoStall ==
    CASE op(instr) = OP_JAL -> imm_j(instr)
      [] BranchTaken -> imm_b(instr)
      [] instr = EBREAK -> Zeros(xlen)
      [] OTHER -> Four

\* variant: EBREAK does not hold the pc
pc_inc_EbreakAdvances ==
    CASE op(instr) = OP_JAL -> imm_j(instr)
      [] BranchTaken -> imm_b(instr)
      [] Stalled -> Zeros(xlen)
      [] OTHER -> Four

\* variant: JAL leaves pc_inc at its default
pc_inc_JalSequential ==
    CASE BranchTaken -> imm_b(instr)
      [] Stalled -> Zeros(xlen)
      [] instr = EBREAK -> Zeros(xlen)
      [] OTHER -> Four

\* pc_inc
pc_inc ==
    CASE op(instr) = OP_JAL -> imm_j(instr)
      [] BranchTaken -> imm_b(instr)
      [] Stalled -> Zeros(xlen)
      [] instr = EBREAK -> Zeros(xlen)
      [] OTHER -> Four

pc_plus_inc == Add32(pc, pc_inc)

\* variant: JALR does not clear the least significant bit of its target
NextPc_NoMask ==
    IF op(instr) = OP_JALR /\ funct3(instr) = 0
    THEN alu_out
    ELSE pc_plus_inc

\* the value the EXECUTE case assigns to pc
NextPc ==
    IF op(instr) = OP_JALR /\ funct3(instr) = 0
    THEN <<0>> \o Slice(alu_out, 1, 32)
    ELSE pc_plus_inc

\* variant: the loaded byte or half is never sign-extended
LoadData_NoSign(dat_r) ==
    LET mem == funct3(instr)
        a == ToNat(Slice(LoadDest, 0, 2))
        s0 == IF mem = WORD THEN 0 ELSE a
        shift == IF mem \in {HALF, HALF_U} THEN 2 * ((s0 \div 2) % 2) ELSE s0
        shifted == ShiftRight(dat_r, 8 * shift)
        mask == ShiftRight(SelMask(BusSel), 8 * shift)
    IN  And(shifted, mask)

\* the data a load writes to rd: shifted, masked by sel and sign-extended
LoadData(dat_r) ==
    LET mem == funct3(instr)
        a == ToNat(Slice(LoadDest, 0, 2))
        s0 == IF mem = WORD THEN 0 ELSE a
        shift == IF mem \in {HALF, HALF_U} THEN 2 * ((s0 \div 2) % 2) ELSE s0
        shifted == ShiftRight(dat_r, 8 * shift)
        mask == ShiftRight(SelMask(BusSel), 8 * shift)
        data == And(shifted, mask)
        sign == IF mem = BYTE THEN data[8] ELSE IF mem = HALF THEN data[16] ELSE 0
    IN  Or(data, And(Not(mask), Replicate(sign, xlen)))

\* variant: every instruction but a stalled load writes rd
RdWriteEn_AlsoBranchStore ==
    /\ state = "EXECUTE"
    /\ op(instr) = OP_LOAD => BusAck = 1


\* variant: only LUI, AUIPC, OP_IMM and OP write rd
RdWriteEn_AluOnly ==
    /\ state = "EXECUTE"
    /\ op(instr) \in {OP_LUI, OP_AUIPC, OP_OP_IMM, OP_OP}


\* rd_write_en
RdWriteEn ==
    /\ state = "EXECUTE"
    /\ \/ op(instr) \in {OP_LUI, OP_AUIPC, OP_JAL, OP_OP_IMM, OP_OP}
       \/ op(instr) = OP_JALR /\ funct3(instr) = 0
       \/ op(instr) = OP_LOAD /\ BusAck = 1
       \/ IsCsrInstr

\* variant: JALR links the address it jumps to
RdValue_JalrTarget ==
    CASE op(instr) = OP_LUI -> imm_u(instr)
      [] op(instr) = OP_JAL -> Add32(pc, Four)
      [] op(instr) = OP_JALR /\ funct3(instr) = 0 -> alu_out
      [] op(instr) = OP_LOAD /\ BusAck = 1 -> LoadData(BusDatR)
      [] IsCsrInstr -> CsrReadData
      [] OTHER -> alu_out

\* rd, the value to store into regs[instr.rd]
RdValue ==
    CASE op(instr) = OP_LUI -> imm_u(instr)
      [] op(instr) = OP_JAL -> Add32(pc, Four)
      [] op(instr) = OP_JALR /\ funct3(instr) = 0 -> pc_plus_inc
      [] op(instr) = OP_LOAD /\ BusAck = 1 -> LoadData(BusDatR)
      [] IsCsrInstr -> CsrReadData
      [] OTHER -> alu_out

\* is_valid_instruction
is_valid_instruction ==
    LET f3 == funct3(instr)
        f7 == funct7(instr)
    IN  /\ state = "EXECUTE"
        /\ \/ op(instr) \in {OP_LUI, OP_AUIPC, OP_JAL}
           \/ op(instr) = OP_JALR /\ f3 = 0
           \/ op(instr) = OP_BRANCH /\ f3 \in {0, 1, 4, 5, 6, 7}
           \/ op(instr) = OP_LOAD /\ f3 \in {BYTE, HALF, WORD, BYTE_U, HALF_U}
           \/ op(instr) = OP_STORE /\ f3 \in {BYTE, HALF, WORD}
           \/ op(instr) = OP_OP_IMM /\ (f3 \in {0, 2, 3, 4, 6, 7}
                                        \/ (f3 = 1 /\ f7 = NORMAL)
                                        \/ (f3 = 5 /\ f7 \in {NORMAL, ALT}))
           \/ op(instr) = OP_OP /\ (f7 = NORMAL \/ (f7 = ALT /\ f3 \in {0, 5}))
           \/ instr = EBREAK
           \/ CsrValid

\* variant: the write to the register file does not spare x0
RegsNext_WritesZero ==
    IF RdWriteEn
    THEN [regs EXCEPT ![rd(instr)] = RdValue]
    ELSE regs

\* the write to the register file: only when enabled, only to a register
\* other than x0
RegsNext ==
    IF RdWriteEn /\ rd(instr) # 0
    THEN [regs EXCEPT ![rd(instr)] = RdValue]
    ELSE regs

\* ------------------------------------------------------------------------
\* risky/peripherals/sha1.py: Device
\* The 32-bit registers are kept as pairs <<upper half, lower half>> of
\* 16-bit numbers and computed on as bit vectors.
\* ------------------------------------------------------------------------

Pair(v) == <<ToNat(Slice(v, 16, 32)), ToNat(Slice(v, 0, 16))>>
Vec(h) == Word(h[1], h[2])

\* Value.rotate_left
RotateLeft(v, n) ==
    CHOOSE r \in {SubSeq([i \in 1..Len(x) |-> x[((i - 1 - n + Len(x)) % Len(x)) + 1]],
                         1, Len(x)) : x \in {v}} : TRUE

\* the init value of hash
Sha1InitHash ==
    [i \in 0..4 |-> <<<<26437, 8961>>, <<61389, 43913>>, <<39098, 56574>>,
                      <<4146, 21622>>, <<50130, 57840>>>>[i + 1]]

\* the registers after construction; chunks counts the chunks started, to
\* bound the exploration
Sha1Reset ==
    [state |-> "IDLE", round |-> 0,
     data |-> [i \in 0..15 |-> <<0, 0>>],
     hash |-> Sha1InitHash,
     chunkhash |-> [i \in 0..4 |-> <<0, 0>>],
     chunks |-> 0]

\* ready
Sha1Ready == IF sha1.state = "IDLE" THEN 1 ELSE 0

\* output: hash[0] in the most significant 32 bits
Sha1Output ==
    Vec(sha1.hash[4]) \o Vec(sha1.hash[3]) \o Vec(sha1.hash[2])
        \o Vec(sha1.hash[1]) \o Vec(sha1.hash[0])

\* variant: data_stb loads a chunk in any state
Sha1Loads_AnyState(stb) == stb = 1

\* idle & data_stb
Sha1Loads(stb) == sha1.state = "IDLE" /\ stb = 1

\* word: the message schedule for the current round
Sha1Word ==
    LET r == sha1.round
        w(i) == Vec(sha1.data[i % 16])
    IN  IF r < 16 THEN w(r)
        ELSE RotateLeft(Xor(Xor(w(r - 3), w(r - 8)), Xor(w(r - 14), w(r - 16))), 1)

\* chunkhash after a busy step
Sha1Round ==
    LET r == sha1.round
        a == Vec(sha1.chunkhash[0])
        b == Vec(sha1.chunkhash[1])
        c == Vec(sha1.chunkhash[2])
        d == Vec(sha1.chunkhash[3])
        e == Vec(sha1.chunkhash[4])
        f == CASE r < 20 -> Or(And(b, c), And(Not(b), d))
               [] r < 40 -> Xor(Xor(b, c), d)
               [] r < 60 -> Or(Or(And(b, c), And(b, d)), And(c, d))
               [] OTHER -> Xor(Xor(b, c), d)
        k == CASE r < 20 -> Word(23170, 31129)
               [] r < 40 -> Word(28377, 60321)
               [] r < 60 -> Word(36635, 48348)
               [] OTHER -> Word(51810, 49622)
        t == Add32(Add32(Add32(Add32(RotateLeft(a, 5), f), e), k), Sha1Word)
    IN  [i \in 0..4 |->
            CASE i = 0 -> Pair(t)
              [] i = 1 -> sha1.chunkhash[0]
              [] i = 2 -> Pair(RotateLeft(b, 30))
              [] i = 3 -> sha1.chunkhash[2]
              [] i = 4 -> sha1.chunkhash[3]]

\* Device.elaborate: the registers after the clock edge, for the inputs
\* data_stb, data_in (512 bits) and initialize
Sha1Step(stb, din, init) ==
    LET r == sha1.round
    IN  IF Sha1Loads(stb) THEN
            [sha1 EXCEPT
                !.data = [i \in 0..15 |-> Pair(Slice(din, 32 * (15 - i), 32 * (16 - i)))],
                !.round = 0,
                !.state = "BUSY",
                !.chunkhash = IF init = 1 THEN Sha1InitHash ELSE sha1.hash,
                !.hash = IF init = 1 THEN Sha1InitHash ELSE sha1.hash]
        ELSE CASE sha1.state = "BUSY" ->
                    [sha1 EXCEPT
                        !.round = (r + 1) % 128,
                        !.state = IF r + 1 = 80 THEN "FINISH" ELSE "BUSY",
                        !.data[r % 16] = Pair(Sha1Word),
                        !.chunkhash = Sha1Round]
               [] sha1.state = "FINISH" ->
                    [sha1 EXCEPT
                        !.state = "IDLE",
                        !.hash = [i \in 0..4 |->
                                    Pair(Add32(Vec(sha1.hash[i]), Vec(sha1.chunkhash[i])))]]
               [] OTHER -> sha1

\* data_in for a chunk given as its 16 words, the first word of the message
\* in the most significant 32 bits
DataIn(words) ==
    SubSeq([p \in 1..512 |-> Vec(words[16 - ((p - 1) \div 32)])[((p - 1) % 32) + 1]],
           1, 512)

\* the one chunk of the empty message and the one chunk of "abc"
Sha1Chunks == {
    DataIn([i \in 1..16 |-> IF i = 1 THEN <<32768, 0>> ELSE <<0, 0>>]),
    DataIn([i \in 1..16 |-> CASE i = 1 -> <<24930, 25472>>
                              [] i = 16 -> <<0, 24>>
                              [] OTHER -> <<0, 0>>]) }

\* ------------------------------------------------------------------------
\* risky/peripherals/uart.py: Unbuffered, the transmitter
\* ------------------------------------------------------------------------

\* v - 1 on a bit vector, same width
Dec(v) == Not(Inc(Not(v)))

\* the registers after construction, with the input divisor at its init
\* value -1; sent is the byte accepted last, kept for the properties
UartReset ==
    [count |-> Zeros(33), tx_shift |-> Zeros(8), tx_bits |-> 0, tx_state |-> "IDLE",
     divisor |-> Replicate(1, 32), sent |-> Zeros(8)]

\* baud = count[-1]
UartBaud == uart.count[33]

\* tx
UartTx ==
    CASE uart.tx_state = "IDLE" -> 1
      [] uart.tx_state = "START" -> 0
      [] uart.tx_state = "BITS" -> uart.tx_shift[1]
      [] uart.tx_state = "STOP" -> 1

\* variant: ready again as soon as the transmitter is back in IDLE or STOP
UartTxReady_InStop ==
    IF uart.tx_state \in {"IDLE", "STOP"} /\ uart.tx_bits = 0 THEN 1 ELSE 0

\* tx_ready: driven in IDLE only, ~tx_bits.any()
UartTxReady == IF uart.tx_state = "IDLE" /\ uart.tx_bits = 0 THEN 1 ELSE 0

\* Unbuffered.elaborate: the registers of the clock divider and of the
\* transmitter after the clock edge, for the inputs divisor, divisor_stb,
\* tx_data and tx_stb
UartStep(divisor, divisor_stb, tx_data, tx_stb) ==
    LET baud == UartBaud = 1
        any == uart.tx_bits # 0
        load == UartTxReady = 1 /\ tx_stb = 1
        reset_count == baud \/ divisor_stb = 1
    IN  [uart EXCEPT
            !.divisor = divisor,
            !.count = Dec(IF reset_count THEN ZeroExt(divisor, 33) ELSE uart.count),
            !.tx_shift =
                IF uart.tx_state = "BITS" /\ baud /\ any
                THEN ShiftRight(uart.tx_shift, 1)
                ELSE IF load THEN tx_data ELSE uart.tx_shift,
            !.tx_bits =
                IF uart.tx_state = "BITS" /\ baud /\ any
                THEN uart.tx_bits - 1
                ELSE IF load THEN 7 ELSE uart.tx_bits,
            !.tx_state =
                CASE uart.tx_state = "IDLE" -> IF baud /\ any THEN "START" ELSE "IDLE"
                  [] uart.tx_state = "START" -> IF baud THEN "BITS" ELSE "START"
                  [] uart.tx_state = "BITS" ->
                        IF baud /\ ~any THEN "STOP" ELSE "BITS"
                  [] uart.tx_state = "STOP" -> IF baud THEN "IDLE" ELSE "STOP",
            !.sent = IF load THEN tx_data ELSE uart.sent]

\* the divisors and the bytes explored: 1, 2 and 3 clock cycles per bit
UartDivisors == {FromNat(d, 32) : d \in 0..2}
UartBytes == {FromNat(b, 8) : b \in {0, 60, 165}}

\* both peripherals as constructed
DevicesReset == sha1 = Sha1Reset /\ uart = UartReset


\* ------------------------------------------------------------------------
\* Programs: instruction words laid out as the Instruction struct (op, rd,
\* funct3, rs1, rs2, funct7 from bit 0 up)
\* ------------------------------------------------------------------------

Imm(n, w) == FromNat((n + Pow2(w)) % Pow2(w), w)

EncR(f7, r2, r1, f3, d, o) ==
    FromNat(o, 7) \o FromNat(d, 5) \o FromNat(f3, 3) \o FromNat(r1, 5)
        \o FromNat(r2, 5) \o FromNat(f7, 7)

EncI(imm, r1, f3, d, o) ==
    FromNat(o, 7) \o FromNat(d, 5) \o FromNat(f3, 3) \o FromNat(r1, 5) \o Imm(imm, 12)

EncS(imm, r2, r1, f3) ==
    LET b == Imm(imm, 12)
    IN  FromNat(OP_STORE, 7) \o Slice(b, 0, 5) \o FromNat(f3, 3) \o FromNat(r1, 5)
            \o FromNat(r2, 5) \o Slice(b, 5, 12)

EncB(imm, r2, r1, f3) ==
    LET b == Imm(imm, 13)
    IN  FromNat(OP_BRANCH, 7) \o <<b[12]>> \o Slice(b, 1, 5) \o FromNat(f3, 3)
            \o FromNat(r1, 5) \o FromNat(r2, 5) \o Slice(b, 5, 11) \o <<b[13]>>

EncU(imm20, d, o) == FromNat(o, 7) \o FromNat(d, 5) \o FromNat(imm20, 20)

EncJ(imm, d) ==
    LET b == Imm(imm, 21)
    IN  FromNat(OP_JAL, 7) \o FromNat(d, 5) \o Slice(b, 12, 20) \o <<b[12]>>
            \o Slice(b, 1, 11) \o <<b[21]>>

\* first instruction: the base register x1
SlotBase == {
    EncU(65536, 1, OP_LUI),             \* lui x1, 0x10000: the Ram window
    EncI(6, 0, 0, 1, OP_OP_IMM) }       \* addi x1, x0, 6: inside the Rom

\* second instruction: the data register x2
SlotData == {
    EncI(-291, 0, 0, 2, OP_OP_IMM),     \* addi x2, x0, -0x123
    EncI(12, 0, WORD, 2, OP_LOAD),      \* lw x2, 12(x0)
    EncI(3072, 0, RS, 2, OP_SYSTEM) }   \* csrrs x2, cycle, x0

\* third instruction: one of each kind
SlotTest ==
    {EncS(k, 2, 1, BYTE) : k \in 0..3}              \* sb x2, k(x1)
    \cup {EncS(k, 2, 1, HALF) : k \in 0..3}         \* sh x2, k(x1)
    \cup {EncS(k, 2, 1, WORD) : k \in {0, 4}}       \* sw x2, k(x1)
    \cup {EncS(0, 2, 1, 3)}                         \* store, funct3 = 011
    \cup {EncI(0, 1, WORD, 3, OP_LOAD),             \* lw x3, 0(x1)
          EncI(1, 1, BYTE, 3, OP_LOAD),             \* lb x3, 1(x1)
          EncI(2, 1, HALF_U, 3, OP_LOAD),           \* lhu x3, 2(x1)
          EncI(2, 1, WORD, 0, OP_LOAD),             \* lw x0, 2(x1)
          EncI(1, 2, 0, 0, OP_OP_IMM),              \* addi x0, x2, 1
          EncR(NORMAL, 2, 1, 0, 0, OP_OP),          \* add x0, x1, x2
          EncR(ALT, 2, 1, 0, 4, OP_OP),             \* sub x4, x1, x2
          EncR(ALT, 1, 2, 5, 4, OP_OP),             \* sra x4, x2, x1
          EncI(2, 2, 1, 4, OP_OP_IMM),              \* slli x4, x2, 2
          EncU(74565, 0, OP_LUI),                   \* lui x0, 0x12345
          EncU(1, 0, OP_AUIPC),                     \* auipc x0, 1
          EncJ(4, 0),                               \* jal x0, 4
          EncJ(6, 5),                               \* jal x5, 6
          EncJ(-8, 5),                              \* jal x5, -8
          EncI(1, 1, 0, 0, OP_JALR),                \* jalr x0, 1(x1)
          EncI(-2, 1, 0, 1, OP_JALR),               \* jalr x1, -2(x1)
          EncI(0, 1, 1, 5, OP_JALR),                \* jalr, funct3 = 001
          EncB(6, 0, 0, 0),                         \* beq x0, x0, 6
          EncB(-8, 0, 2, 1),                        \* bne x2, x0, -8
          EncB(4, 1, 2, 4),                         \* blt x2, x1, 4
          EncI(3072, 0, RS, 0, OP_SYSTEM),          \* csrrs x0, cycle, x0
          EncI(3074, 2, RW, 4, OP_SYSTEM),          \* csrrw x4, instret, x2
          EBREAK,
          ECALL,
          Zeros(xlen)}

\* fourth instruction: read back, write to the Rom, or halt
SlotLast == {
    EncI(0, 1, WORD, 3, OP_LOAD),       \* lw x3, 0(x1)
    EncS(5, 2, 0, BYTE),                \* sb x2, 5(x0)
    EncS(8, 2, 0, WORD),                \* sw x2, 8(x0)
    EBREAK }

SlotPrograms ==
    {<<a, b, c, d>> : a \in SlotBase, b \in SlotData, c \in SlotTest, d \in SlotLast}

\* the pairs (width of a store, width of the load that reads it back)
SameWidth ==
    {<<BYTE, BYTE>>, <<BYTE, BYTE_U>>, <<HALF, HALF>>, <<HALF, HALF_U>>, <<WORD, WORD>>}

\* x2 = 0xfffffedd (negative byte and half) or 0x0000027f (positive ones),
\* stored to the Ram at offset k and loaded back from the same address
RoundTripPrograms ==
    {<<EncU(65536, 1, OP_LUI),                      \* lui x1, 0x10000
       EncI(v, 0, 0, 2, OP_OP_IMM),                 \* addi x2, x0, v
       EncS(k, 2, 1, w[1]),                         \* s{b,h,w} x2, k(x1)
       EncI(k, 1, w[2], 3, OP_LOAD)>>               \* l{b,bu,h,hu,w} x3, k(x1)
     : v \in {-291, 639}, k \in 0..3, w \in SameWidth}

\* the Zicsr instructions: every funct3, rd and rs1 zero and nonzero, the six
\* counter addresses and two addresses no provider claims
CsrInstrs ==
    {EncI(a, r, f, d, OP_SYSTEM)
     : a \in {3072, 3073, 3074, 3200, 3201, 3202, 768, 3075},
       r \in {0, 1}, f \in {RW, RS, RC, RWI, RSI, RCI}, d \in {0, 4}}

CsrPrograms ==
    {<<EncI(6, 0, 0, 1, OP_OP_IMM),                 \* addi x1, x0, 6
       c,
       EncI(3074, 0, RS, 6, OP_SYSTEM),             \* csrrs x6, instret, x0
       EBREAK>>
     : c \in CsrInstrs}

\* addi x10, x0, 3; LOOP: addi x10, x10, -1; bne x10, x0, LOOP; ebreak
LoopProgram ==
    <<EncI(3, 0, 0, 10, OP_OP_IMM),
      EncI(-1, 10, 0, 10, OP_OP_IMM),
      EncB(-4, 0, 10, 1),
      EBREAK>>

\* a jump or a taken branch whose target is its own address 4
SelfJumpPrograms ==
    {<<EncI(4, 0, 0, 1, OP_OP_IMM),                 \* addi x1, x0, 4
       c,
       EncI(1, 1, 0, 1, OP_OP_IMM),                 \* addi x1, x1, 1
       EBREAK>>
     : c \in {EncJ(0, 0),                           \* jal x0, 0
              EncB(0, 0, 0, 0),                     \* beq x0, x0, 0
              EncI(0, 1, 0, 0, OP_JALR)}}           \* jalr x0, 0(x1)

\* x1 = 7 or 0xffffffff, then a JALR through x1 whose sum rs1 + imm_i is odd
\* or even, wraps around or not, linking into x1 itself, x0 or x5
JalrPrograms ==
    {<<EncI(v, 0, 0, 1, OP_OP_IMM),                 \* addi x1, x0, v
       EncI(k, 1, 0, d, OP_JALR),                   \* jalr d, k(x1)
       EncI(1, 0, 0, 6, OP_OP_IMM),                 \* addi x6, x0, 1
       EBREAK>>
     : v \in {7, -1}, k \in {0, 1, 9, -3}, d \in {0, 1, 5}}

\* the offsets of the JAL at address 4: back past address 0 (to
\* 0xfffffffc), forward to address 12, and to the next instruction
JalOffsets == {-8, 8, 4}

\* a JAL at address 4 linking into x0 or x5
JalPrograms ==
    {<<EncI(1, 0, 0, 1, OP_OP_IMM),                 \* addi x1, x0, 1
       EncJ(k, d),                                  \* jal d, k
       EncI(1, 1, 0, 1, OP_OP_IMM),                 \* addi x1, x1, 1
       EBREAK>>
     : k \in JalOffsets, d \in {0, 5}}

\* first instruction of the comparison programs: x1 = 0xffffffff, 1,
\* 0x80000000 or 0x7ffff000
SetX1 == {
    EncI(-1, 0, 0, 1, OP_OP_IMM),       \* addi x1, x0, -1
    EncI(1, 0, 0, 1, OP_OP_IMM),        \* addi x1, x0, 1
    EncU(524288, 1, OP_LUI),            \* lui x1, 0x80000
    EncU(524287, 1, OP_LUI) }           \* lui x1, 0x7ffff

\* second instruction: x2 = 0xffffffff, 0 or 0x80000000
SetX2 == {
    EncI(-1, 0, 0, 2, OP_OP_IMM),       \* addi x2, x0, -1
    EncI(0, 0, 0, 2, OP_OP_IMM),        \* addi x2, x0, 0
    EncU(524288, 2, OP_LUI) }           \* lui x2, 0x80000

\* the offsets of the branch at address 8: back to address 0, forward past
\* the end of the Rom, and back past address 0 (to 0xfffffffc)
BranchOffsets == {-8, 8, -12}

\* a branch of every funct3 on x1 and x2, followed by a load
BranchPrograms ==
    {<<a, b, EncB(k, 2, 1, f), EncI(0, 0, WORD, 3, OP_LOAD)>>
     : a \in SetX1, b \in SetX2, k \in BranchOffsets, f \in 0..7}

\* SLT and SLTU on x1 and x2 in both orders, SLTI and SLTIU on x1
ComparePrograms ==
    {<<a, b, c[1], c[2]>>
     : a \in SetX1, b \in SetX2,
       c \in {<<EncR(NORMAL, 2, 1, 2, 3, OP_OP),      \* slt x3, x1, x2
                EncR(NORMAL, 2, 1, 3, 4, OP_OP)>>,     \* sltu x4, x1, x2
              <<EncR(NORMAL, 1, 2, 2, 3, OP_OP),      \* slt x3, x2, x1
                EncR(NORMAL, 1, 2, 3, 4, OP_OP)>>,     \* sltu x4, x2, x1
              <<EncI(-1, 1, 2, 3, OP_OP_IMM),         \* slti x3, x1, -1
                EncI(1, 1, 3, 4, OP_OP_IMM)>>}}        \* sltiu x4, x1, 1

\* x1 = 0xffffffff, 1, 0x80000000, 0x7ffff000 or 0xfffffedd, shifted by
\* every amount s with SLLI, SRLI and SRAI
ShiftImmPrograms ==
    {<<a,
       EncR(NORMAL, n, 1, 1, 3, OP_OP_IMM),         \* slli x3, x1, n
       EncR(NORMAL, n, 1, 5, 4, OP_OP_IMM),         \* srli x4, x1, n
       EncR(ALT, n, 1, 5, 5, OP_OP_IMM)>>           \* srai x5, x1, n
     : a \in SetX1 \cup {EncI(-291, 0, 0, 1, OP_OP_IMM)}, n \in 0..31}

\* the same shifts by the amount in the low five bits of x2 (31, 0, 0)
ShiftRegPrograms ==
    {<<a, b, c, EncR(ALT, 2, 1, 5, 5, OP_OP)>>      \* sra x5, x1, x2
     : a \in SetX1, b \in SetX2,
       c \in {EncR(NORMAL, 2, 1, 1, 3, OP_OP),       \* sll x3, x1, x2
              EncR(NORMAL, 2, 1, 5, 4, OP_OP)}}      \* srl x4, x1, x2

\* the programs that exercise the Alu's comparisons and shifts
AluPrograms ==
    BranchPrograms \cup ComparePrograms \cup ShiftImmPrograms \cup ShiftRegPrograms

\* words no case of the decoder recognizes, executed with x1 at the Ram
UnrecognizedWords == {
    EncI(0, 1, 3, 3, OP_LOAD),                  \* load, funct3 = 011
    EncI(4, 1, 7, 3, OP_LOAD),                  \* load, funct3 = 111
    EncS(4, 2, 1, 3),                           \* store, funct3 = 011
    EncB(8, 0, 0, 2),                           \* branch, funct3 = 010
    EncI(8, 1, 2, 5, OP_JALR),                  \* jalr, funct3 = 010
    EncR(1, 2, 1, 0, 3, OP_OP),                 \* op, funct7 = 0000001
    EncR(ALT, 2, 1, 1, 3, OP_OP_IMM),           \* slli, funct7 = 0100000
    EncI(0, 0, 0, 0, 15),                       \* opcode 0001111
    EncI(2, 0, 0, 0, OP_SYSTEM),                \* system, funct3 = 000, imm = 2
    Word(65535, 65535) }

UnrecognizedPrograms ==
    {<<EncU(65536, 1, OP_LUI),                  \* lui x1, 0x10000
       w,
       EncI(1, 0, 0, 6, OP_OP_IMM),             \* addi x6, x0, 1
       EBREAK>>
     : w \in UnrecognizedWords}

\* a store and a load at 0x40000000, an address in no window
UnmappedPrograms ==
    {<<EncU(262144, 1, OP_LUI),                 \* lui x1, 0x40000
       EncI(5, 0, 0, 2, OP_OP_IMM),             \* addi x2, x0, 5
       w,
       EBREAK>>
     : w \in {EncS(0, 2, 1, WORD),              \* sw x2, 0(x1)
              EncI(0, 1, WORD, 3, OP_LOAD)}}    \* lw x3, 0(x1)

\* one word for every opcode, funct3 and three values of funct7, with fields
\* rd = 3, rs1 = 1 and rs2 = 2, executed with x1 at the Ram and x2 = 0xfffffedd
DecodeWords ==
    {EncR(f7, 2, 1, f3, 3, o)
     : f7 \in {0, 1, ALT}, f3 \in 0..7,
       o \in {OP_LOAD, OP_MISC_MEM, OP_OP_IMM, OP_AUIPC, OP_STORE, OP_OP, OP_LUI,
              OP_BRANCH, OP_JALR, OP_JAL, OP_SYSTEM, 0, 127}}

DecodePrograms ==
    {<<EncU(65536, 1, OP_LUI),                  \* lui x1, 0x10000
       EncI(-291, 0, 0, 2, OP_OP_IMM),          \* addi x2, x0, -291
       w,
       EBREAK>>
     : w \in DecodeWords}

\* instructions of every kind that write x5
HazardFirst == {
    EncI(7, 0, 0, 5, OP_OP_IMM),                \* addi x5, x0, 7
    EncU(74565, 5, OP_LUI),                     \* lui x5, 0x12345
    EncI(4, 0, WORD, 5, OP_LOAD),               \* lw x5, 4(x0)
    EncJ(4, 5),                                 \* jal x5, 4
    EncI(4, 0, 0, 5, OP_JALR),                  \* jalr x5, 4(x0)
    EncI(3072, 0, RS, 5, OP_SYSTEM) }           \* csrrs x5, cycle, x0

\* an instruction that writes x5, followed at once by one that reads it
HazardPrograms ==
    {<<a, b,
       EncR(ALT, 5, 6, 0, 7, OP_OP),            \* sub x7, x6, x5
       EBREAK>>
     : a \in HazardFirst,
       b \in {EncI(1, 5, 0, 6, OP_OP_IMM),      \* addi x6, x5, 1
              EncR(0, 5, 0, 0, 6, OP_OP),       \* add x6, x0, x5
              EncS(0, 5, 5, WORD)}}             \* sw x5, 0(x5)

CorePrograms ==
    DecodePrograms \cup HazardPrograms \cup CsrPrograms \cup UnrecognizedPrograms
        \cup RoundTripPrograms

Programs ==
    SlotPrograms \cup RoundTripPrograms \cup CsrPrograms \cup SelfJumpPrograms
        \cup {LoopProgram} \cup JalrPrograms \cup JalPrograms
        \cup UnrecognizedPrograms \cup UnmappedPrograms

\* the initial contents of the Ram
RamInits == {Zeros(xlen), Word(42330, 15555)}

\* a memory of the given depth initialised from a list of words, the rest 0
MemInit(init, depth) ==
    [a \in 0..(depth - 1) |-> IF a < Len(init) THEN init[a + 1] ELSE Zeros(xlen)]

\* ------------------------------------------------------------------------
\* The machine
\* ------------------------------------------------------------------------

NOP == Word(0, 19)

Init ==
    /\ state = "FETCH_INSTR"
    /\ pc = Zeros(xlen)
    /\ instr = NOP
    /\ rs1 = Zeros(xlen)
    /\ rs2 = Zeros(xlen)
    /\ regs = [r \in 0..31 |-> Zeros(xlen)]
    /\ cycle = Zeros(64)
    /\ instret = Zeros(64)
    /\ \E p \in Programs : rom_mem = MemInit(p, RomDepth)
    /\ rom_rdata = Zeros(xlen)
    /\ rom_ack = 0
    /\ \E w \in RamInits : ram_mem = [a \in 0..(RamDepth - 1) |-> w]
    /\ ram_rdata = Zeros(xlen)
    /\ ram_state = "READ"
    /\ ram_ack = 0
    /\ DevicesReset

\* the same reset state with the Rom holding a program of the comparison
\* and shift families and the Ram cleared
InitAlu ==
    /\ state = "FETCH_INSTR"
    /\ pc = Zeros(xlen)
    /\ instr = NOP
    /\ rs1 = Zeros(xlen)
    /\ rs2 = Zeros(xlen)
    /\ regs = [r \in 0..31 |-> Zeros(xlen)]
    /\ cycle = Zeros(64)
    /\ instret = Zeros(64)
    /\ \E p \in AluPrograms : rom_mem = MemInit(p, RomDepth)
    /\ rom_rdata = Zeros(xlen)
    /\ rom_ack = 0
    /\ ram_mem = [a \in 0..(RamDepth - 1) |-> Zeros(xlen)]
    /\ ram_rdata = Zeros(xlen)
    /\ ram_state = "READ"
    /\ ram_ack = 0
    /\ DevicesReset

\* the same reset state with the Rom holding a program of the decoding and
\* hazard families
InitCore ==
    /\ state = "FETCH_INSTR"
    /\ pc = Zeros(xlen)
    /\ instr = NOP
    /\ rs1 = Zeros(xlen)
    /\ rs2 = Zeros(xlen)
    /\ regs = [r \in 0..31 |-> Zeros(xlen)]
    /\ cycle = Zeros(64)
    /\ instret = Zeros(64)
    /\ \E p \in CorePrograms : rom_mem = MemInit(p, RomDepth)
    /\ rom_rdata = Zeros(xlen)
    /\ rom_ack = 0
    /\ ram_mem = [a \in 0..(RamDepth - 1) |-> Word(42330, 15555)]
    /\ ram_rdata = Zeros(xlen)
    /\ ram_state = "READ"
    /\ ram_ack = 0
    /\ DevicesReset

\* a 64-bit constant from its four 16-bit quarters
Quad(q3, q2, q1, q0) ==
    FromNat(q0, 16) \o FromNat(q1, 16) \o FromNat(q2, 16) \o FromNat(q3, 16)

\* jal x0, -4: back to address 0 from address 4
JumpBack == EncJ(-4, 0)

\* Programs that repeat from address 0 for ever, each with the state it is
\* in at cycle 2^64 - 16: the core is about to fetch at address 0 (2^64 - 16
\* is a multiple of the 3, 6 and 7 cycles the programs take to come back
\* there), instr and the Rom's read register hold the word fetched last,
\* instret the number of fetches so far, and x5 the value the first
\* instruction wrote four cycles earlier, in its EXECUTE at cycle 2^64 - 20.
LateRuns == {
    \* lw x5, 0(x0); jal x0, -4: 7 cycles, instret = 2 * (2^64 - 16) / 7
    [rom |-> <<EncI(0, 0, WORD, 5, OP_LOAD), JumpBack>>, last |-> JumpBack,
     instret |-> Quad(18724, 37449, 9362, 18720),
     x5 |-> EncI(0, 0, WORD, 5, OP_LOAD)],
    \* sw x0, 0(x0); jal x0, -4: 7 cycles
    [rom |-> <<EncS(0, 0, 0, WORD), JumpBack>>, last |-> JumpBack,
     instret |-> Quad(18724, 37449, 9362, 18720),
     x5 |-> Zeros(xlen)],
    \* csrrs x5, cycle, x0; jal x0, -4: 6 cycles, instret = 2 * (2^64 - 16) / 6
    [rom |-> <<EncI(3072, 0, RS, 5, OP_SYSTEM), JumpBack>>, last |-> JumpBack,
     instret |-> Quad(21845, 21845, 21845, 21840),
     x5 |-> Word(65535, 65516)],
    \* csrrs x5, cycleh, x0; jal x0, -4
    [rom |-> <<EncI(3200, 0, RS, 5, OP_SYSTEM), JumpBack>>, last |-> JumpBack,
     instret |-> Quad(21845, 21845, 21845, 21840),
     x5 |-> Word(65535, 65535)],
    \* csrrs x5, time, x0; jal x0, -4
    [rom |-> <<EncI(3073, 0, RS, 5, OP_SYSTEM), JumpBack>>, last |-> JumpBack,
     instret |-> Quad(21845, 21845, 21845, 21840),
     x5 |-> Word(65535, 65516)],
    \* csrrs x5, timeh, x0; jal x0, -4
    [rom |-> <<EncI(3201, 0, RS, 5, OP_SYSTEM), JumpBack>>, last |-> JumpBack,
     instret |-> Quad(21845, 21845, 21845, 21840),
     x5 |-> Word(65535, 65535)],
    \* csrrs x5, instret, x0; jal x0, -4: reads instret - 1
    [rom |-> <<EncI(3074, 0, RS, 5, OP_SYSTEM), JumpBack>>, last |-> JumpBack,
     instret |-> Quad(21845, 21845, 21845, 21840),
     x5 |-> Word(21845, 21839)],
    \* csrrs x5, instreth, x0; jal x0, -4
    [rom |-> <<EncI(3202, 0, RS, 5, OP_SYSTEM), JumpBack>>, last |-> JumpBack,
     instret |-> Quad(21845, 21845, 21845, 21840),
     x5 |-> Word(21845, 21845)],
    \* an unrecognized word; jal x0, -4: 6 cycles
    [rom |-> <<Zeros(xlen), JumpBack>>, last |-> JumpBack,
     instret |-> Quad(21845, 21845, 21845, 21840),
     x5 |-> Zeros(xlen)],
    \* ebreak: 3 cycles, instret = (2^64 - 16) / 3
    [rom |-> <<EBREAK>>, last |-> EBREAK,
     instret |-> Quad(21845, 21845, 21845, 21840),
     x5 |-> Zeros(xlen)] }

\* the state of one of the programs of LateRuns at cycle 2^64 - 16
InitLate ==
    \E r \in LateRuns :
        /\ state = "FETCH_INSTR"
        /\ pc = Zeros(xlen)
        /\ instr = r.last
        /\ rs1 = Zeros(xlen)
        /\ rs2 = Zeros(xlen)
        /\ regs = [x \in 0..31 |-> IF x = 5 THEN r.x5 ELSE Zeros(xlen)]
        /\ cycle = Quad(65535, 65535, 65535, 65520)
        /\ instret = r.instret
        /\ rom_mem = MemInit(r.rom, RomDepth)
        /\ rom_rdata = r.last
        /\ rom_ack = 0
        /\ \E w \in RamInits : ram_mem = [a \in 0..(RamDepth - 1) |-> w]
        /\ ram_rdata = Zeros(xlen)
        /\ ram_state = "READ"
        /\ ram_ack = 0
        /\ DevicesReset

\* the clock edges explored: cycle < MaxTicks, and the last 16 cycles
\* before the counter wraps around
TickBound ==
    \/ IsZero(Slice(cycle, 16, 64)) /\ ToNat(Slice(cycle, 0, 16)) < MaxTicks
    \/ \A i \in 5..64 : cycle[i] = 1

\* Zicntr.elaborate_pre: cycle counts every edge, instret every fetch ack
CounterTick ==
    /\ cycle' = Inc(cycle)
    /\ instret' = IF state = "FETCH_INSTR" /\ BusAck = 1 THEN Inc(instret) ELSE instret

\* what every edge does besides the core's state machine; the peripherals
\* are not on the bus of this system and keep their reset state
Edge == TickBound /\ CounterTick /\ RomTick /\ RamTick /\ UNCHANGED dev_vars

\* variant: the fetch latches whatever is on the bus without waiting for ack
FetchWait_NoAck ==
    /\ state = "FETCH_INSTR"
    /\ BusAck = 0
    /\ instr' = BusDatR
    /\ rs1' = regs[rs1f(BusDatR)]
    /\ rs2' = regs[rs2f(BusDatR)]
    /\ state' = "EXECUTE"
    /\ pc' = pc
    /\ regs' = RegsNext
    /\ Edge

\* FETCH_INSTR without ack: nothing is latched
FetchWait ==
    /\ state = "FETCH_INSTR"
    /\ BusAck = 0
    /\ UNCHANGED <<state, pc, instr, rs1, rs2>>
    /\ regs' = RegsNext
    /\ Edge

\* FETCH_INSTR with ack: latch the instruction and its source registers
FetchAck ==
    /\ state = "FETCH_INSTR"
    /\ BusAck = 1
    /\ instr' = BusDatR
    /\ rs1' = regs[rs1f(BusDatR)]
    /\ rs2' = regs[rs2f(BusDatR)]
    /\ state' = "EXECUTE"
    /\ pc' = pc
    /\ regs' = RegsNext
    /\ Edge

\* EXECUTE of a load or store that sees no ack: stay in EXECUTE
ExecuteStall ==
    /\ state = "EXECUTE"
    /\ Stalled
    /\ pc' = NextPc
    /\ state' = "EXECUTE"
    /\ regs' = RegsNext
    /\ UNCHANGED <<instr, rs1, rs2>>
    /\ Edge

\* EXECUTE completing: write rd, update pc, back to FETCH_INSTR
ExecuteDone ==
    /\ state = "EXECUTE"
    /\ ~Stalled
    /\ pc' = NextPc
    /\ state' = "FETCH_INSTR"
    /\ regs' = RegsNext
    /\ UNCHANGED <<instr, rs1, rs2>>
    /\ Edge

Next == FetchWait \/ FetchAck \/ ExecuteStall \/ ExecuteDone

Spec == Init /\ [][Next]_vars

\* the same machine late in a run that never ends, around the wrap of cycle
SpecLate == InitLate /\ [][Next]_vars

\* the same machine running the comparison and shift programs from reset
SpecAlu == InitAlu /\ [][Next]_vars

\* the same machine running the decoding and hazard programs from reset
SpecCore == InitCore /\ [][Next]_vars

\* the clock never stops: every edge that the bound of the exploration
\* allows is taken
SpecCoreFair == SpecCore /\ WF_vars(Next)

\* ------------------------------------------------------------------------
\* The peripherals on their own, as their test benches drive them
\* ------------------------------------------------------------------------

\* the core and the memories held in reset, with empty memories
CoreParked ==
    /\ state = "FETCH_INSTR"
    /\ pc = Zeros(xlen)
    /\ instr = NOP
    /\ rs1 = Zeros(xlen)
    /\ rs2 = Zeros(xlen)
    /\ regs = [r \in 0..31 |-> Zeros(xlen)]
    /\ cycle = Zeros(64)
    /\ instret = Zeros(64)
    /\ rom_mem = MemInit(<<>>, RomDepth)
    /\ rom_rdata = Zeros(xlen)
    /\ rom_ack = 0
    /\ ram_mem = [a \in 0..(RamDepth - 1) |-> Zeros(xlen)]
    /\ ram_rdata = Zeros(xlen)
    /\ ram_state = "READ"
    /\ ram_ack = 0

core_vars == <<cpu_vars, cnt_vars, rom_vars, ram_vars>>

InitSha1 == CoreParked /\ DevicesReset

\* an edge with data_stb while the device is ready: one of the chunks, with
\* or without initialize
Sha1Start ==
    /\ Sha1Ready = 1
    /\ sha1.chunks < MaxChunks
    /\ \E din \in Sha1Chunks, init \in Bit :
           sha1' = [Sha1Step(1, din, init) EXCEPT !.chunks = @ + 1]
    /\ UNCHANGED <<core_vars, uart>>

\* an edge while the device is not ready, whatever the inputs are
Sha1Run ==
    /\ Sha1Ready = 0
    /\ \E stb \in Bit, din \in Sha1Chunks, init \in Bit :
           sha1' = Sha1Step(stb, din, init)
    /\ UNCHANGED <<core_vars, uart>>

NextSha1 == Sha1Start \/ Sha1Run

\* the clock of the device never stops
SpecSha1 == InitSha1 /\ [][NextSha1]_vars /\ WF_vars(Sha1Run)

\* the divisor input is driven from the start
InitUart ==
    /\ CoreParked
    /\ sha1 = Sha1Reset
    /\ \E d \in UartDivisors : uart = [UartReset EXCEPT !.divisor = d]

\* an edge that accepts no byte: tx_stb low, or high while tx_ready is low
UartTick ==
    /\ \E stb \in Bit, b \in UartBytes :
           /\ stb = 1 => UartTxReady = 0
           /\ uart' = UartStep(uart.divisor, 0, b, stb)
    /\ UNCHANGED <<core_vars, sha1>>

\* an edge with tx_ready & tx_stb
UartAccept ==
    /\ UartTxReady = 1
    /\ \E b \in UartBytes : uart' = UartStep(uart.divisor, 0, b, 1)
    /\ UNCHANGED <<core_vars, sha1>>

\* an edge with divisor_stb, between two bytes
UartSetDivisor ==
    /\ UartTxReady = 1
    /\ \E d \in UartDivisors : uart' = UartStep(d, 1, Zeros(8), 0)
    /\ UNCHANGED <<core_vars, sha1>>

NextUart == UartTick \/ UartAccept \/ UartSetDivisor

SpecUart == InitUart /\ [][NextUart]_vars



TypeOK ==
    /\ state \in {"FETCH_INSTR", "EXECUTE"}
    /\ Len(pc) = xlen /\ Len(instr) = xlen /\ Len(rs1) = xlen /\ Len(rs2) = xlen
    /\ \A r \in 0..31 : Len(regs[r]) = xlen
    /\ Len(cycle) = 64 /\ Len(instret) = 64
    /\ rom_ack \in Bit /\ ram_ack \in Bit
    /\ ram_state \in {"READ", "WRITE"}

\* ------------------------------------------------------------------------
\* Properties
\* ------------------------------------------------------------------------

\* byte lane (1..4) of bit i (1..32) of a word
Lane(i) == ((i - 1) \div 8) + 1

\* C1: register x0 holds 0 in every reachable state, whatever instruction
\* with rd = 0 has executed.
C1_X0IsZero == regs[0] = Zeros(xlen)

\* an instruction with rd = x0 is completing with a non-zero value to write
C1_Witness ==
    /\ RdWriteEn
    /\ rd(instr) = 0
    /\ ~IsZero(RdValue)

\* C2 as stated: PC bits [1:0] are both 0 in every reachable state.
C2_PcWordAligned == pc[1] = 0 /\ pc[2] = 0

\* C2, amended: PC bit 0 is 0 in every reachable state (JALR clears bit 0
\* of its target and nothing else; the offsets of JAL and of the branches
\* have bit 0 clear).
C2_PcBit0Clear == pc[1] = 0

\* a JALR whose target rs1 + imm_i is odd is completing
C2_Witness ==
    /\ state = "EXECUTE"
    /\ op(instr) = OP_JALR
    /\ funct3(instr) = 0
    /\ alu_out[1] = 1

\* C3: in FETCH_INSTR the core drives adr = pc[2:], sel = 1111,
\* cyc = stb = 1 and we = 0; an edge without ack changes nothing of state,
\* pc, instr, rs1, rs2 and the registers; an edge with ack latches
\* instr = dat_r and rs1, rs2 = the registers its rs1 and rs2 fields name,
\* and the next state is EXECUTE.
C3_Fetch ==
    [][state = "FETCH_INSTR" =>
        /\ BusAdr = Slice(pc, 2, 32)
        /\ BusSel = <<1, 1, 1, 1>>
        /\ BusCyc = 1 /\ BusStb = 1 /\ BusWe = 0
        /\ BusAck = 0 => UNCHANGED <<state, pc, instr, rs1, rs2, regs>>
        /\ BusAck = 1 =>
            /\ instr' = BusDatR
            /\ rs1' = regs[rs1f(instr')]
            /\ rs2' = regs[rs2f(instr')]
            /\ state' = "EXECUTE"]_vars

\* a fetch is acknowledged after a load, with a non-zero register to latch
C3_Witness ==
    /\ state = "FETCH_INSTR"
    /\ BusAck = 1
    /\ op(instr) = OP_LOAD
    /\ ~IsZero(regs[rs1f(BusDatR)])

\* C4: a load or store in EXECUTE that sees no ack stays in EXECUTE with
\* pc, instr, rs1, rs2 and every register unchanged; at the edge of the ack
\* cycle pc becomes pc + 4, the state becomes FETCH_INSTR, and only then
\* is the rd of a load written.
C4_LoadStoreStall ==
    [][IsMemOp =>
        /\ BusAck = 0 =>
            /\ state' = "EXECUTE"
            /\ UNCHANGED <<pc, instr, rs1, rs2, regs>>
        /\ BusAck = 1 =>
            /\ pc' = Add32(pc, Four)
            /\ state' = "FETCH_INSTR"
            /\ (op(instr) = OP_LOAD /\ rd(instr) # 0) =>
                    regs' = [regs EXCEPT ![rd(instr)] = LoadData(BusDatR)]
            /\ (op(instr) = OP_STORE \/ rd(instr) = 0) => regs' = regs]_vars

\* a load is acknowledged and brings its rd a new value
C4_Witness ==
    /\ IsMemOp
    /\ op(instr) = OP_LOAD
    /\ BusAck = 1
    /\ rd(instr) # 0
    /\ regs[rd(instr)] # LoadData(BusDatR)

\* C5: from the first cycle of a bus transaction to the cycle of its ack,
\* adr, sel, we, dat_w, cyc and stb keep their values: a cycle with cyc
\* and no ack is followed by a cycle with the same outputs.
C5_BusStable ==
    [][(BusCyc = 1 /\ BusAck = 0) =>
        /\ BusAdr' = BusAdr
        /\ BusSel' = BusSel
        /\ BusWe' = BusWe
        /\ BusDatW' = BusDatW
        /\ BusCyc' = BusCyc
        /\ BusStb' = BusStb]_vars

\* the ack cycle of a store that drives a narrowed sel and non-zero data
C5_Witness ==
    /\ IsMemOp
    /\ BusWe = 1
    /\ BusAck = 1
    /\ BusSel # <<1, 1, 1, 1>>
    /\ ~IsZero(BusDatW)

\* C6: a Rom or Ram asserts ack only in a cycle in which it sees cyc and
\* stb, and so the controller never sees ack without driving cyc and stb.
C6_AckOnlyInCycle ==
    /\ rom_ack = 1 => (RomCyc = 1 /\ BusStb = 1)
    /\ ram_ack = 1 => (RamCyc = 1 /\ BusStb = 1)
    /\ BusAck = 1 => (BusCyc = 1 /\ BusStb = 1)

\* the Rom acknowledges a fetch that follows an instruction without a bus
\* access
C6_Witness ==
    /\ rom_ack = 1
    /\ state = "FETCH_INSTR"
    /\ op(instr) \notin {OP_LOAD, OP_STORE}
    /\ ~IsZero(pc)

\* C7: the edge that completes a Ram write with select mask sel and data
\* dat_w at word adr leaves in mem[adr] the bytes of dat_w in the selected
\* lanes and the old bytes in the others, and changes no other word.
C7_RamWriteLanes ==
    [][RamWriteEn =>
        \A a \in 0..(RamDepth - 1) : \A i \in 1..xlen :
            ram_mem'[a][i] = IF a = RamAdr /\ BusSel[Lane(i)] = 1
                             THEN BusDatW[i]
                             ELSE ram_mem[a][i]]_vars

\* a write of some but not all lanes is completing on a non-zero word, and
\* changes it
C7_Witness ==
    /\ RamWriteEn
    /\ BusSel # <<1, 1, 1, 1>>
    /\ ~IsZero(ram_mem[RamAdr])
    /\ \E i \in 1..xlen : BusSel[Lane(i)] = 1 /\ BusDatW[i] # ram_mem[RamAdr][i]
    /\ \E i \in 1..xlen : BusSel[Lane(i)] = 0 /\ BusDatW[i] # ram_mem[RamAdr][i]

\* C8 as stated: ack is asserted in both cycles of a Ram write, the one in
\* state READ and the one in state WRITE.
C8_AckBothCycles == RamDoWrite = 1 => ram_ack = 1

\* C8, amended: of the two cycles of a Ram write, ack is low in the cycle
\* in state READ that issues the read and asserted in the cycle in state
\* WRITE that writes the merged word back.
C8_AckInWriteCycle ==
    RamDoWrite = 1 =>
        /\ ram_state = "READ" => ram_ack = 0
        /\ ram_state = "WRITE" => ram_ack = 1

\* the second cycle of a Ram write
C8_Witness ==
    /\ RamDoWrite = 1
    /\ ram_state = "WRITE"
    /\ ram_ack = 1

\* C9: a read presented to a Rom or a Ram while its ack is low is
\* acknowledged on the next cycle, with dat_r the word stored at adr, and
\* ack is low again on the cycle after that one.
C9_ReadLatency ==
    [][/\ (RomDoRead = 1 /\ rom_ack = 0) =>
            /\ rom_ack' = 1
            /\ BusAck' = 1
            /\ BusDatR' = rom_mem[RomAdr]
            /\ rom_mem' = rom_mem
       /\ (RomDoRead = 1 /\ rom_ack = 1) => rom_ack' = 0
       /\ (RamDoRead = 1 /\ ram_ack = 0) =>
            /\ ram_ack' = 1
            /\ BusAck' = 1
            /\ BusDatR' = ram_mem[RamAdr]
            /\ ram_mem' = ram_mem
       /\ (RamDoRead = 1 /\ ram_ack = 1) => ram_ack' = 0]_vars

\* the Ram acknowledges a read with a non-zero word
C9_Witness ==
    /\ RamDoRead = 1
    /\ ram_ack = 1
    /\ ~IsZero(BusDatR)
    /\ BusDatR = ram_mem[RamAdr]

\* C10: a write addressed to the Rom is acknowledged on the cycle after
\* the request, and no edge changes a word of the Rom.
C10_RomWriteIgnored ==
    [][/\ (RomDoWrite = 1 /\ rom_ack = 0) => (rom_ack' = 1 /\ BusAck' = 1)
       /\ rom_mem' = rom_mem]_vars

\* the Rom acknowledges a write of non-zero data that differs from the
\* addressed word
C10_Witness ==
    /\ RomDoWrite = 1
    /\ rom_ack = 1
    /\ ~IsZero(BusDatW)
    /\ BusDatW # rom_mem[RomAdr]

\* the low byte, half or word of v, extended to xlen bits as the load of
\* width f3 extends it: by its sign for LB and LH, by zeros for LBU and LHU
Extended(v, f3) ==
    CASE f3 = BYTE -> SignExt(Slice(v, 0, 8), xlen)
      [] f3 = HALF -> SignExt(Slice(v, 0, 16), xlen)
      [] f3 = BYTE_U -> ZeroExt(Slice(v, 0, 8), xlen)
      [] f3 = HALF_U -> ZeroExt(Slice(v, 0, 16), xlen)
      [] OTHER -> v

\* the instruction in EXECUTE was fetched from the Rom, and not from its
\* first word
HasPrevInstr ==
    /\ state = "EXECUTE"
    /\ pc[1] = 0 /\ pc[2] = 0
    /\ IsZero(Slice(pc, 2 + RomAddrWidth, xlen))
    /\ ToNat(Slice(pc, 2, 2 + RomAddrWidth)) >= 1

\* the word of the Rom right before the instruction in EXECUTE
PrevInstr == rom_mem[ToNat(Slice(pc, 2, 2 + RomAddrWidth)) - 1]

\* the instruction in EXECUTE is a load from the Ram that is being
\* acknowledged, and the instruction before it, which the programs reach it
\* through, is a store of the same width to the same address
LoadAfterStore ==
    /\ HasPrevInstr
    /\ op(instr) = OP_LOAD
    /\ BusAck = 1
    /\ RamSelected
    /\ op(PrevInstr) = OP_STORE
    /\ <<funct3(PrevInstr), funct3(instr)>> \in SameWidth
    /\ rs1f(PrevInstr) = rs1f(instr)
    /\ imm_s(PrevInstr) = imm_i(instr)

\* C11: a store of rs2 to a Ram address followed by a load of the same
\* width from the same address writes to rd the low 1, 2 or 4 bytes of
\* rs2, sign-extended for LB and LH and zero-extended for LBU and LHU, for
\* every byte offset 0..3 and whatever the word held before.
C11_RoundTrip ==
    [][(LoadAfterStore /\ rd(instr) # 0)
         => regs'[rd(instr)] = Extended(regs[rs2f(PrevInstr)], funct3(instr))]_vars

\* LB reads back, at byte offset 3, a negative byte stored into a word
\* whose other lanes are not 0
C11_Witness ==
    /\ LoadAfterStore
    /\ funct3(instr) = BYTE
    /\ ToNat(Slice(LoadDest, 0, 2)) = 3
    /\ regs[rs2f(PrevInstr)][8] = 1
    /\ ~IsZero(Slice(BusDatR, 0, 24))
    /\ rd(instr) # 0
    /\ LoadData(BusDatR) = SignExt(Slice(regs[rs2f(PrevInstr)], 0, 8), xlen)

\* the number of bytes a load of width f3 shifts dat_r down by, given the
\* low two bits a of its address
LoadShift(a, f3) ==
    CASE f3 \in {BYTE, BYTE_U} -> a
      [] f3 \in {HALF, HALF_U} -> 2 * ((a \div 2) % 2)
      [] OTHER -> 0

\* C12: on the ack cycle of a load at address rs1 + imm_i with low bits a,
\* rd receives dat_r shifted right by 8 * shift bits (shift = a for LB and
\* LBU, a & 0b10 for LH and LHU, 0 for LW), cut to the access width, then
\* sign-extended for LB and LH and zero-filled for LBU and LHU.
C12_LoadExtract ==
    [][(/\ state = "EXECUTE"
        /\ op(instr) = OP_LOAD
        /\ funct3(instr) \in {BYTE, HALF, WORD, BYTE_U, HALF_U}
        /\ BusAck = 1
        /\ rd(instr) # 0)
         => regs'[rd(instr)] =
              Extended(ShiftRight(BusDatR,
                           8 * LoadShift(ToNat(Slice(Add32(rs1, imm_i(instr)), 0, 2)),
                                         funct3(instr))),
                       funct3(instr))]_vars

\* LB takes the negative top byte of a Rom word
C12_Witness ==
    /\ state = "EXECUTE"
    /\ op(instr) = OP_LOAD
    /\ funct3(instr) = BYTE
    /\ BusAck = 1
    /\ RomSelected
    /\ rd(instr) # 0
    /\ ToNat(Slice(LoadDest, 0, 2)) = 3
    /\ BusDatR[32] = 1
    /\ ~IsZero(Slice(BusDatR, 0, 24))

\* C13: in EXECUTE of SB, SH or SW at address rs1 + imm_s with low bits a
\* the core drives we = 1 and adr = (rs1 + imm_s) >> 2; SB drives
\* sel = 1 << a and rs2[7:0] in all four lanes of dat_w, SH drives
\* sel = 0b11 << (a & 0b10) and rs2[15:0] in both halves, SW drives
\* sel = 1111 and dat_w = rs2.
C13_StoreLanes ==
    (state = "EXECUTE" /\ op(instr) = OP_STORE /\ funct3(instr) \in {BYTE, HALF, WORD})
      => LET d == Add32(rs1, imm_s(instr))
             a == ToNat(Slice(d, 0, 2))
         IN  /\ BusWe = 1
             /\ BusAdr = Slice(d, 2, xlen)
             /\ funct3(instr) = BYTE =>
                  /\ BusSel = FromNat(Pow2(a), 4)
                  /\ \A l \in 0..3 : Slice(BusDatW, 8 * l, 8 * l + 8) = Slice(rs2, 0, 8)
             /\ funct3(instr) = HALF =>
                  /\ BusSel = FromNat(3 * Pow2(2 * ((a \div 2) % 2)), 4)
                  /\ \A h \in 0..1 : Slice(BusDatW, 16 * h, 16 * h + 16) = Slice(rs2, 0, 16)
             /\ funct3(instr) = WORD =>
                  /\ BusSel = <<1, 1, 1, 1>>
                  /\ BusDatW = rs2

\* SH at byte offset 3 of a register whose two halves differ
C13_Witness ==
    /\ state = "EXECUTE"
    /\ op(instr) = OP_STORE
    /\ funct3(instr) = HALF
    /\ ToNat(Slice(StoreDest, 0, 2)) = 3
    /\ Slice(rs2, 0, 16) # Slice(rs2, 16, xlen)
    /\ BusSel = <<0, 0, 1, 1>>

\* the instruction in EXECUTE is SYSTEM with the funct3 of a Zicsr form
ZicsrInExecute(forms) ==
    state = "EXECUTE" /\ op(instr) = OP_SYSTEM /\ funct3(instr) \in forms

\* C14: in EXECUTE, CSRRW and CSRRWI assert the read strobe iff rd # x0 and
\* the write strobe always; CSRRS and CSRRC assert the read strobe always
\* and the write strobe iff the rs1 index is not 0; CSRRSI and CSRRCI assert
\* the read strobe always and the write strobe iff uimm # 0; outside the
\* EXECUTE of a Zicsr instruction neither strobe is asserted.
C14_CsrStrobes ==
    /\ ZicsrInExecute({RW, RWI}) =>
         /\ CsrReadEn = (IF rd(instr) # 0 THEN 1 ELSE 0)
         /\ CsrWriteEn = 1
    /\ ZicsrInExecute({RS, RC}) =>
         /\ CsrReadEn = 1
         /\ CsrWriteEn = (IF rs1f(instr) # 0 THEN 1 ELSE 0)
    /\ ZicsrInExecute({RSI, RCI}) =>
         /\ CsrReadEn = 1
         /\ CsrWriteEn = (IF IsZero(uimm) THEN 0 ELSE 1)
    /\ ~ZicsrInExecute({RW, RS, RC, RWI, RSI, RCI}) =>
         /\ CsrReadEn = 0
         /\ CsrWriteEn = 0

\* CSRRW with rd = x0: a write without a read
C14_Witness ==
    /\ ZicsrInExecute({RW})
    /\ rd(instr) = 0
    /\ CsrReadEn = 0
    /\ CsrWriteEn = 1

\* C15: the value presented for a CSR write is rs1 for CSRRW, old | rs1
\* for CSRRS and old & ~rs1 for CSRRC, and the same with uimm, the
\* zero-extended rs1 field, for CSRRWI, CSRRSI and CSRRCI; old is the value
\* the CSR reads in that cycle.
C15_CsrWriteValue ==
    LET old == CsrReadData
        src == IF funct3(instr) \in {RW, RS, RC}
               THEN rs1
               ELSE FromNat(rs1f(instr), 5) \o Zeros(xlen - 5)
    IN  /\ ZicsrInExecute({RW, RWI}) => CsrWriteData = src
        /\ ZicsrInExecute({RS, RSI}) =>
             \A i \in 1..xlen :
                CsrWriteData[i] = (IF old[i] = 1 \/ src[i] = 1 THEN 1 ELSE 0)
        /\ ZicsrInExecute({RC, RCI}) =>
             \A i \in 1..xlen :
                CsrWriteData[i] = (IF old[i] = 1 /\ src[i] = 0 THEN 1 ELSE 0)

\* CSRRC of a counter with a mask that clears some of its bits and keeps
\* others
C15_Witness ==
    /\ ZicsrInExecute({RC})
    /\ rs1f(instr) # 0
    /\ ~IsZero(CsrWriteData)
    /\ CsrWriteData # CsrReadData
    /\ ~IsZero(And(CsrReadData, rs1))

\* the CSR address of the instruction is one of the six counters
CounterCsr == ToNat(Slice(instr, 20, 32)) \in {3072, 3073, 3074, 3200, 3201, 3202}

\* the Zicsr instruction in instr asserts the write strobe
WritesCsr == funct3(instr) \in {RW, RWI} \/ rs1f(instr) # 0

\* C16: a CSR instruction whose address no provider claims, or that asserts
\* the write strobe on one of the read-only counters, is reported as
\* invalid; the counters are not modified by it (cycle counts the edge,
\* instret stays) and the PC advances by 4.
C16_InvalidCsr ==
    [][(ZicsrInExecute({RW, RS, RC, RWI, RSI, RCI}) /\ (~CounterCsr \/ WritesCsr))
         => /\ ~is_valid_instruction
            /\ pc' = Add32(pc, Four)
            /\ state' = "FETCH_INSTR"
            /\ instret' = instret
            /\ ToNat(Slice(cycle', 0, 16)) = ToNat(Slice(cycle, 0, 16)) + 1]_vars

\* CSRRS with rs1 # x0 on instret, a read-only counter
C16_Witness ==
    /\ ZicsrInExecute({RS})
    /\ rs1f(instr) # 0
    /\ ~IsZero(rs1)
    /\ ToNat(Slice(instr, 20, 32)) = 3074
    /\ ~is_valid_instruction
    /\ ~IsZero(Slice(instret, 0, 16))

\* the value of a counter that is below 2^16, -1 for a larger one
Count(v) == IF IsZero(Slice(v, 16, Len(v))) THEN ToNat(Slice(v, 0, 16)) ELSE -1

\* the Rom holds no jump and no branch, and no EBREAK below the pc: the
\* core reached the pc by completing pc / 4 instructions one after another
FellThrough ==
    /\ pc[1] = 0 /\ pc[2] = 0
    /\ Count(Slice(pc, 2, xlen)) \in 0..RomDepth
    /\ \A k \in 0..(RomDepth - 1) :
          /\ op(rom_mem[k]) \notin {OP_JAL, OP_JALR, OP_BRANCH}
          /\ k < Count(Slice(pc, 2, xlen)) => rom_mem[k] # EBREAK

\* the instructions retired when the core is in FETCH at a pc it fell
\* through to: the pc / 4 instructions below the pc, and the EBREAK at the
\* pc once it has been fetched
Retired ==
    Count(Slice(pc, 2, xlen)) + (IF instr = EBREAK THEN 1 ELSE 0)

\* C17: instret is 0 at reset, increases by exactly 1 on the edges of the
\* FETCH cycles in which ack is observed and is unchanged by every other
\* edge (EXECUTE, stalled or not, and FETCH without ack), so that once N
\* instructions have retired instret = N.
C17_Instret ==
    /\ instret = Zeros(64)
    /\ [][IF state = "FETCH_INSTR" /\ BusAck = 1
          THEN Count(instret') = Count(instret) + 1
          ELSE instret' = instret]_vars
    /\ []((state = "FETCH_INSTR" /\ FellThrough) => Count(instret) = Retired)

\* C18: running {addi x10, x0, 3; LOOP: addi x10, x10, -1;
\* bne x10, x0, LOOP; ebreak} from reset, once the EBREAK has been fetched
\* x10 = 0 and instret = 8.
C18_LoopHalt ==
    (rom_mem = MemInit(LoopProgram, RomDepth) /\ instr = EBREAK)
      => (regs[10] = Zeros(xlen) /\ Count(instret) = 8)

\* an instruction in EXECUTE that completes at this edge
Completes == state = "EXECUTE" /\ ~Stalled

\* the instruction in EXECUTE is a jump or a taken branch to its own address
JumpsToItself ==
    \/ op(instr) = OP_JAL /\ IsZero(imm_j(instr))
    \/ op(instr) = OP_BRANCH /\ BranchTaken /\ IsZero(imm_b(instr))
    \/ /\ op(instr) = OP_JALR /\ funct3(instr) = 0
       /\ <<0>> \o Slice(Add32(rs1, imm_i(instr)), 1, xlen) = pc

\* once an EBREAK has been fetched the pc, the registers and the memories
\* no longer change, and an EBREAK is what every later fetch latches
EbreakHolds ==
    instr = EBREAK
      => /\ pc' = pc
         /\ regs' = regs
         /\ rom_mem' = rom_mem
         /\ ram_mem' = ram_mem
         /\ instr' = EBREAK

\* C19 as stated: once an EBREAK has been fetched the pc stays at its
\* address and no register and no memory word changes, and no instruction
\* other than EBREAK completes without moving the pc.
C19_OnlyEbreakHoldsPc ==
    [][/\ EbreakHolds
       /\ (Completes /\ instr # EBREAK) => pc' # pc]_vars

\* C19: once an EBREAK has been fetched the pc stays at its address and no
\* register and no memory word changes; an instruction other than EBREAK
\* completes without moving the pc only when it is a JAL or a taken branch
\* with offset 0 or a JALR whose target is its own address, and every
\* instruction that is not a jump or a taken branch advances the pc by 4.
C19_EbreakOrSelfJump ==
    [][/\ EbreakHolds
       /\ (Completes /\ instr # EBREAK /\ ~JumpsToItself) => pc' # pc
       /\ (/\ Completes
           /\ instr # EBREAK
           /\ op(instr) # OP_JAL
           /\ ~BranchTaken
           /\ ~(op(instr) = OP_JALR /\ funct3(instr) = 0))
            => pc' = Add32(pc, Four)]_vars

\* the core is back in EXECUTE of an EBREAK it has fetched before, after
\* instructions that wrote a register
C19_Witness ==
    /\ state = "EXECUTE"
    /\ instr = EBREAK
    /\ FellThrough
    /\ Count(instret) > Count(Slice(pc, 2, xlen)) + 1
    /\ \E r \in 1..31 : ~IsZero(regs[r])

\* quarter k (0..3) of a 64-bit counter, as a number below 2^16
Quarter(v, k) == ToNat(Slice(v, 16 * k, 16 * k + 16))

\* w = (v + 1) mod 2^64, computed on the four quarters with their carries
IsSuccessor64(v, w) ==
    LET s0 == Quarter(v, 0) + 1
        s1 == Quarter(v, 1) + s0 \div 65536
        s2 == Quarter(v, 2) + s1 \div 65536
        s3 == Quarter(v, 3) + s2 \div 65536
    IN  /\ Len(w) = 64
        /\ Quarter(w, 0) = s0 % 65536
        /\ Quarter(w, 1) = s1 % 65536
        /\ Quarter(w, 2) = s2 % 65536
        /\ Quarter(w, 3) = s3 % 65536

\* C20: every clock edge, whatever the core is doing (FETCH, EXECUTE,
\* stalled on the bus, halted at an EBREAK, executing an unrecognized or a
\* CSR instruction), takes the 64-bit cycle counter to (cycle + 1) mod 2^64.
C20_CycleCounts == [][IsSuccessor64(cycle, cycle')]_vars

\* the edge that wraps the counter from 2^64 - 1 to 0, in a FETCH that is
\* being acknowledged
C20_Witness ==
    /\ cycle = Replicate(1, 64)
    /\ state = "FETCH_INSTR"
    /\ BusAck = 1

\* the upper half of a 32-bit word as a signed number, so that the word's
\* two's-complement value is 65536 * SignedHigh + the lower half
SignedHigh(v) == ToNat(Slice(v, 16, 32)) - 65536 * v[32]

\* a < b as unsigned numbers
LessUnsigned(a, b) ==
    \/ ToNat(Slice(a, 16, 32)) < ToNat(Slice(b, 16, 32))
    \/ /\ ToNat(Slice(a, 16, 32)) = ToNat(Slice(b, 16, 32))
       /\ ToNat(Slice(a, 0, 16)) < ToNat(Slice(b, 0, 16))

\* a < b as two's-complement numbers
LessSigned(a, b) ==
    \/ SignedHigh(a) < SignedHigh(b)
    \/ /\ SignedHigh(a) = SignedHigh(b)
       /\ ToNat(Slice(a, 0, 16)) < ToNat(Slice(b, 0, 16))

\* the condition of the branch with the given funct3 on a and b
BranchCondition(f3, a, b) ==
    CASE f3 = 0 -> a = b
      [] f3 = 1 -> a # b
      [] f3 = 4 -> LessSigned(a, b)
      [] f3 = 5 -> ~LessSigned(a, b)
      [] f3 = 6 -> LessUnsigned(a, b)
      [] f3 = 7 -> ~LessUnsigned(a, b)
      [] OTHER -> FALSE

\* the offset k of the branch at address 8 is what the core decodes from its
\* encoding: the pc after the taken branch is 8 + k mod 2^32
BranchTarget(k) ==
    CASE k = -8 -> Zeros(xlen)
      [] k = 8 -> Word(0, 16)
      [] k = -12 -> Word(65535, 65532)

\* C21: the edge that ends the EXECUTE of BEQ, BNE, BLT, BGE, BLTU or BGEU
\* sets the pc to pc + imm_b (mod 2^32, imm_b sign-extended) when the
\* condition holds on the latched rs1 and rs2 (which are the registers the
\* instruction names), and to pc + 4 when it does not.
C21_Branch ==
    [][(/\ state = "EXECUTE"
        /\ op(instr) = OP_BRANCH
        /\ funct3(instr) \in {0, 1, 4, 5, 6, 7})
        => /\ rs1 = regs[rs1f(instr)]
           /\ rs2 = regs[rs2f(instr)]
           /\ pc' = IF BranchCondition(funct3(instr), rs1, rs2)
                    THEN Add32(pc, imm_b(instr))
                    ELSE Add32(pc, Four)
           /\ \A k \in BranchOffsets :
                 (pc = Word(0, 8) /\ instr = EncB(k, rs2f(instr), rs1f(instr), funct3(instr))
                    /\ BranchCondition(funct3(instr), rs1, rs2))
                   => pc' = BranchTarget(k)]_vars

\* a BLTU of 0x7ffff000 against 0x80000000 at address 8 was taken with
\* offset -12: the pc is 0xfffffffc
C21_Witness ==
    /\ state = "FETCH_INSTR"
    /\ pc = Word(65535, 65532)
    /\ instr = EncB(-12, 2, 1, 6)
    /\ regs[1] = Word(32767, 61440)
    /\ regs[2] = Word(32768, 0)

\* v with its least significant bit cleared
ClearBit0(v) == <<0>> \o Slice(v, 1, Len(v))

\* C22: the edge that ends the EXECUTE of a JALR with funct3 = 000 sets the
\* pc to (rs1 + imm_i) mod 2^32 with bit 0 cleared, rs1 being the value the
\* register had before this edge, and writes pc + 4 to rd unless rd is x0;
\* no other register changes.
C22_Jalr ==
    [][(state = "EXECUTE" /\ op(instr) = OP_JALR /\ funct3(instr) = 0)
        => /\ pc' = ClearBit0(Add32(regs[rs1f(instr)], imm_i(instr)))
           /\ regs' = IF rd(instr) = 0 THEN regs
                      ELSE [regs EXCEPT ![rd(instr)] = Add32(pc, Four)]
           /\ state' = "FETCH_INSTR"]_vars

\* jalr x1, 0(x1) at address 4 with x1 = 7: the sum is odd, the pc is 6 and
\* x1 holds the link address 8
C22_Witness ==
    /\ state = "FETCH_INSTR"
    /\ instr = EncI(0, 1, 0, 1, OP_JALR)
    /\ pc = Word(0, 6)
    /\ regs[1] = Word(0, 8)
    /\ rom_mem[0] = EncI(7, 0, 0, 1, OP_OP_IMM)

\* the pc after the JAL at address 4 with offset k: 4 + k mod 2^32
JalTarget(k) ==
    CASE k = -8 -> Word(65535, 65532)
      [] k = 8 -> Word(0, 12)
      [] k = 4 -> Word(0, 8)

\* C23: the edge that ends the EXECUTE of a JAL sets the pc to pc + imm_j
\* (mod 2^32, imm_j sign-extended, pc the address of the JAL) and writes
\* pc + 4 to rd unless rd is x0; a JAL with offset 4 and rd = x0 leaves the
\* registers and the memories as they are and the pc at pc + 4, as an
\* instruction that only advances does.
C23_Jal ==
    [][(state = "EXECUTE" /\ op(instr) = OP_JAL)
        => /\ pc' = Add32(pc, imm_j(instr))
           /\ regs' = IF rd(instr) = 0 THEN regs
                      ELSE [regs EXCEPT ![rd(instr)] = Add32(pc, Four)]
           /\ state' = "FETCH_INSTR"
           /\ \A k \in JalOffsets :
                 (pc = Word(0, 4) /\ instr = EncJ(k, rd(instr))) => pc' = JalTarget(k)
           /\ instr = EncJ(4, 0)
                 => /\ pc' = Add32(pc, Four)
                    /\ regs' = regs
                    /\ rom_mem' = rom_mem
                    /\ ram_mem' = ram_mem]_vars

\* jal x5, -8 at address 4 has jumped to 0xfffffffc and linked 8
C23_Witness ==
    /\ state = "FETCH_INSTR"
    /\ instr = EncJ(-8, 5)
    /\ pc = Word(65535, 65532)
    /\ regs[5] = Word(0, 8)

\* what the Alu is to give for LT, LTU and EQ on a and b
Comparison(aop, a, b) ==
    CASE aop = LT -> LessSigned(a, b)
      [] aop = LTU -> LessUnsigned(a, b)
      [] aop = EQ -> a = b

\* C24: for the operands the Alu is given, whatever they are compared
\* for, its LT output is 1 iff in1 < in2 as two's-complement numbers, its
\* LTU output 1 iff in1 < in2 as unsigned numbers and its EQ output 1 iff
\* in1 = in2, and 0 otherwise; SLT, SLTU, SLTI and SLTIU write that bit to rd.
C24_Compare ==
    [][/\ \A aop \in {LT, LTU, EQ} :
             AluOut(AluIn1, AluIn2, aop, AluShiftAmount)
               = ZeroExt(<<IF Comparison(aop, AluIn1, AluIn2) THEN 1 ELSE 0>>, xlen)
       /\ (/\ state = "EXECUTE"
           /\ op(instr) \in {OP_OP, OP_OP_IMM}
           /\ funct3(instr) \in {2, 3}
           /\ op(instr) = OP_OP => funct7(instr) = NORMAL
           /\ rd(instr) # 0)
            => regs'[rd(instr)]
                 = ZeroExt(<<IF Comparison(IF funct3(instr) = 2 THEN LT ELSE LTU,
                                           regs[rs1f(instr)],
                                           IF op(instr) = OP_OP THEN regs[rs2f(instr)]
                                           ELSE imm_i(instr))
                             THEN 1 ELSE 0>>, xlen)]_vars

\* 0xffffffff against 0: SLT gave 1 and SLTU, now in EXECUTE, gives 0
C24_Witness ==
    /\ state = "EXECUTE"
    /\ instr = EncR(NORMAL, 2, 1, 3, 4, OP_OP)
    /\ rs1 = Word(65535, 65535)
    /\ rs2 = Zeros(xlen)
    /\ regs[3] = Word(0, 1)
    /\ alu_out = Zeros(xlen)

\* the shifts of a 32-bit word by n, bit by bit: bit i of the result is
\* bit i - n (left) or i + n (right) of v where there is one, and otherwise
\* 0 or, for the arithmetic shift, bit 31 of v
Shifted(aop, v, n) ==
    CHOOSE r \in {SubSeq([i \in 1..xlen |->
                             CASE aop = SHIFT_LL -> IF i - k >= 1 THEN x[i - k] ELSE 0
                               [] aop = SHIFT_RL -> IF i + k <= xlen THEN x[i + k] ELSE 0
                               [] aop = SHIFT_RA -> IF i + k <= xlen THEN x[i + k] ELSE x[xlen]],
                          1, xlen) : x \in {v}, k \in {n}} : TRUE

\* the Alu operation of a shift instruction
ShiftOp(i) ==
    CASE funct3(i) = 1 -> SHIFT_LL
      [] funct7(i) = ALT -> SHIFT_RA
      [] OTHER -> SHIFT_RL

\* the instruction in instr is SLL, SRL, SRA, SLLI, SRLI or SRAI
IsShift ==
    /\ op(instr) \in {OP_OP, OP_OP_IMM}
    /\ \/ funct3(instr) = 1 /\ funct7(instr) = NORMAL
       \/ funct3(instr) = 5 /\ funct7(instr) \in {NORMAL, ALT}

\* C25: for the operand the Alu is given and every amount n in 0..31,
\* SHIFT_LL gives (in1 << n) mod 2^32, SHIFT_RL the logical and SHIFT_RA the
\* arithmetic right shift (n = 0 gives in1; SHIFT_RA by 31 gives all ones
\* for a negative in1 and 0 otherwise); the shift instructions write that
\* value to rd, the amount being the rs2 field or the low five bits of rs2.
C25_Shift ==
    [][/\ state = "EXECUTE" =>
             /\ \A aop \in {SHIFT_LL, SHIFT_RL, SHIFT_RA} :
                   /\ \A n \in 0..31 :
                         AluOut(AluIn1, AluIn2, aop, n) = Shifted(aop, AluIn1, n)
                   /\ AluOut(AluIn1, AluIn2, aop, 0) = AluIn1
             /\ AluOut(AluIn1, AluIn2, SHIFT_RA, 31) = Replicate(AluIn1[xlen], xlen)
       /\ (state = "EXECUTE" /\ IsShift /\ rd(instr) # 0)
            => regs'[rd(instr)]
                 = Shifted(ShiftOp(instr), regs[rs1f(instr)],
                           IF op(instr) = OP_OP_IMM THEN rs2f(instr)
                           ELSE ToNat(Slice(regs[rs2f(instr)], 0, 5)))]_vars

\* srai x5, x1, 31 on 0x80000000 has written all ones, after srli had
\* written 1 and slli 0
C25_Witness ==
    /\ state = "FETCH_INSTR"
    /\ instr = EncR(ALT, 31, 1, 5, 5, OP_OP_IMM)
    /\ regs[1] = Word(32768, 0)
    /\ regs[3] = Zeros(xlen)
    /\ regs[4] = Word(0, 1)
    /\ regs[5] = Word(65535, 65535)

UnmappedAccess == BusCyc = 1 /\ ~RomSelected /\ ~RamSelected

\* C27: an access outside every window is acknowledged at once, that is in
\* the cycle it is driven or the one after, as the memories do; so the core
\* leaves FETCH_INSTR or EXECUTE; and an unmapped store changes no memory
\* word.
C27_UnmappedAcked ==
    [][UnmappedAccess =>
         /\ BusAck = 1 \/ BusAck' = 1
         /\ rom_mem' = rom_mem /\ ram_mem' = ram_mem]_vars

\* C29: ECALL in EXECUTE is a recognized instruction (is_valid_instruction
\* is 1, so it is not reported), it changes no register and no memory word,
\* and the pc advances by 4.
C29_EcallRecognized ==
    [][(state = "EXECUTE" /\ instr = ECALL) =>
         /\ is_valid_instruction
         /\ regs' = regs
         /\ rom_mem' = rom_mem /\ ram_mem' = ram_mem
         /\ pc' = Add32(pc, Four)
         /\ state' = "FETCH_INSTR"]_vars

\* the two windows the SoC calls ROM: 'bootloader' at 0x00000000, built by
\* add_rom, and 'rom' at 0x10000000, built by add_ram
SocBootloader == rom_mem
SocRom == ram_mem

\* C30: no store changes a word of a ROM window of the SoC, the bootloader
\* or the program ROM 'rom'.
C30_RomWindowsKeep ==
    [][SocBootloader' = SocBootloader /\ SocRom' = SocRom]_vars

\* ------------------------------------------------------------------------
\* risky/ormux_cpu.py: the one-hot-mux Cpu, as combinational signals over
\* the registers it shares by name with cpu.Cpu (state, pc, instr, rs1, rs2,
\* regs); its state FETCH is written "FETCH_INSTR" here
\* ------------------------------------------------------------------------

\* the instruction component of Rv32i that asserts ib.valid for instr; the
\* conditions exclude each other, so the one-hot mux passes that
\* component's outputs through
OrmuxUnit ==
    LET o == op(instr)
        f3 == funct3(instr)
        f7 == funct7(instr)
    IN  CASE o = OP_LUI -> "LUI"
          [] o = OP_AUIPC -> "AUIPC"
          [] o = OP_JAL -> "JAL"
          [] o = OP_JALR /\ f3 = 0 -> "JALR"
          [] o = OP_BRANCH /\ f3 \in {0, 1, 4, 5, 6, 7} -> "Branch"
          [] o = OP_LOAD /\ f3 \in {BYTE, HALF, WORD, BYTE_U, HALF_U} -> "Load"
          [] o = OP_STORE /\ f3 \in {BYTE, HALF, WORD} -> "Store"
          [] o = OP_OP_IMM /\ (f3 = 1 => f7 = NORMAL)
                           /\ (f3 = 5 => f7 \in {NORMAL, ALT}) -> "OpImm"
          [] o = OP_OP /\ (IF f3 \in {0, 5} THEN f7 \in {NORMAL, ALT}
                                            ELSE f7 = NORMAL) -> "Op"
          [] instr = EBREAK -> "EBREAK"
          [] OTHER -> "none"

\* ib.valid & ib.execute of the component u
Executing(u) == state = "EXECUTE" /\ OrmuxUnit = u

\* the Alu of ormux_cpu: op is a Funct3Alu, alt selects SUB and the
\* arithmetic shift, and the shift amount is in2 & 31
OrmuxAluOut(in1, in2, fop, alt) ==
    LET minus == Sub33(in1, in2)
        plus == Add32(in1, in2)
        ltu == minus[33]
        lt == IF in1[32] # in2[32] THEN in1[32] ELSE minus[33]
        shift_in == IF fop = 1 THEN Reverse(in1) ELSE in1
        rightshift == ShiftRightSigned(shift_in \o <<alt * shift_in[32]>>,
                                       ToNat(Slice(in2, 0, 5)))
        leftshift == Reverse(Slice(rightshift, 0, 32))
    IN  CASE fop = 0 -> IF alt = 1 THEN Slice(minus, 0, 32) ELSE plus
          [] fop = 1 -> leftshift
          [] fop = 5 -> Slice(rightshift, 0, 32)
          [] fop = 2 -> ZeroExt(<<lt>>, xlen)
          [] fop = 3 -> ZeroExt(<<ltu>>, xlen)
          [] fop = 4 -> Xor(in1, in2)
          [] fop = 6 -> Or(in1, in2)
          [] fop = 7 -> And(in1, in2)

\* alu_bus.out for the in1, in2, op and alt that Branch, OpImm and Op drive
alu_bus_out ==
    LET
        alu_bus_in1 ==
            IF Executing("Branch") \/ Executing("OpImm") \/ Executing("Op")
            THEN rs1 ELSE Zeros(xlen)
        alu_bus_in2 ==
            CASE Executing("Branch") \/ Executing("Op") -> rs2
              [] Executing("OpImm") ->
                    IF funct3(instr) \in {1, 5}
                    THEN ZeroExt(Slice(instr, 20, 25), xlen)
                    ELSE imm_i(instr)
              [] OTHER -> Zeros(xlen)
        alu_bus_op ==
            CASE Executing("Branch") ->
                    (CASE funct3(instr) \in {0, 1} -> 0
                       [] funct3(instr) \in {4, 5} -> 2
                       [] OTHER -> 3)
              [] Executing("OpImm") \/ Executing("Op") -> funct3(instr)
              [] OTHER -> 0
        alu_bus_alt ==
            CASE Executing("Branch") -> IF funct3(instr) \in {0, 1} THEN 1 ELSE 0
              [] Executing("OpImm") ->
                    IF funct3(instr) \in {1, 5} /\ funct7(instr) # NORMAL THEN 1 ELSE 0
              [] Executing("Op") -> IF funct7(instr) # NORMAL THEN 1 ELSE 0
              [] OTHER -> 0
    IN  OrmuxAluOut(alu_bus_in1, alu_bus_in2, alu_bus_op, alu_bus_alt)

\* dest of Load (rs1 + imm_i) and of Store (rs1 + imm_s)
OrmuxDest ==
    IF Executing("Store") THEN Add32(rs1, imm_s(instr)) ELSE Add32(rs1, imm_i(instr))

\* variant: the JALR component does not clear bit 0 of its target
ib_j_addr_NoMask ==
    CASE Executing("AUIPC") -> imm_u(instr)
      [] Executing("JAL") -> imm_j(instr)
      [] Executing("JALR") -> Add32(rs1, imm_i(instr))
      [] Executing("Branch") -> imm_b(instr)
      [] OTHER -> Zeros(xlen)

ib_j_addr ==
    CASE Executing("AUIPC") -> imm_u(instr)
      [] Executing("JAL") -> imm_j(instr)
      [] Executing("JALR") -> <<0>> \o Slice(Add32(rs1, imm_i(instr)), 1, 32)
      [] Executing("Branch") -> imm_b(instr)
      [] OTHER -> Zeros(xlen)

ib_j_rel == Executing("AUIPC") \/ Executing("JAL") \/ Executing("Branch")

ib_j_en ==
    \/ Executing("JAL")
    \/ Executing("JALR")
    \/ /\ Executing("Branch")
       /\ CASE funct3(instr) = 0 -> IsZero(alu_bus_out)
            [] funct3(instr) = 1 -> ~IsZero(alu_bus_out)
            [] funct3(instr) \in {4, 6} -> alu_bus_out[1] = 1
            [] OTHER -> alu_bus_out[1] = 0

ib_pc_next == Add32(pc, Four)

ib_pc_jump == IF ib_j_rel THEN Add32(pc, ib_j_addr) ELSE ib_j_addr

\* Load.execute: dat_r shifted down to the addressed lane, masked to the
\* width and sign-extended
OrmuxLoadData(dat_r) ==
    LET mem == funct3(instr)
        a == ToNat(Slice(OrmuxDest, 0, 2))
        s0 == IF mem = WORD THEN 0 ELSE a
        shift == IF mem \in {HALF, HALF_U} THEN 2 * ((s0 \div 2) % 2) ELSE s0
        mask == CASE mem \in {BYTE, BYTE_U} -> Word(0, 255)
                  [] mem \in {HALF, HALF_U} -> Word(0, 65535)
                  [] OTHER -> Word(65535, 65535)
        data == And(ShiftRight(dat_r, 8 * shift), mask)
        sign == IF mem = BYTE THEN data[8] ELSE IF mem = HALF THEN data[16] ELSE 0
    IN  Or(data, And(Not(mask), Replicate(sign, xlen)))

ib_wait ==
    \/ Executing("Load") /\ BusAck = 0
    \/ Executing("Store") /\ BusAck = 0
    \/ Executing("EBREAK")

ib_rd_stb ==
    \/ Executing("LUI") \/ Executing("AUIPC") \/ Executing("JAL") \/ Executing("JALR")
    \/ Executing("OpImm") \/ Executing("Op")
    \/ Executing("Load") /\ BusAck = 1

ib_rd_data ==
    CASE Executing("LUI") -> imm_u(instr)
      [] Executing("AUIPC") -> ib_pc_jump
      [] Executing("JAL") \/ Executing("JALR") -> ib_pc_next
      [] Executing("OpImm") \/ Executing("Op") -> alu_bus_out
      [] Executing("Load") /\ BusAck = 1 -> OrmuxLoadData(BusDatR)
      [] OTHER -> Zeros(xlen)

\* Cpu.elaborate of ormux_cpu: the registers after the clock edge
OrmuxNextState ==
    CASE state = "FETCH_INSTR" -> IF BusAck = 1 THEN "EXECUTE" ELSE "FETCH_INSTR"
      [] OTHER -> IF ib_wait THEN "EXECUTE" ELSE "FETCH_INSTR"

OrmuxNextPc ==
    IF state = "EXECUTE" /\ ~ib_wait
    THEN (IF ib_j_en THEN ib_pc_jump ELSE ib_pc_next)
    ELSE pc

OrmuxNextLatch ==
    IF state = "FETCH_INSTR" /\ BusAck = 1
    THEN <<BusDatR, regs[rs1f(BusDatR)], regs[rs2f(BusDatR)]>>
    ELSE <<instr, rs1, rs2>>

OrmuxRegsNext ==
    IF ib_rd_stb /\ rd(instr) # 0
    THEN [regs EXCEPT ![rd(instr)] = ib_rd_data]
    ELSE regs

\* the memory bus as the Cpu (in FETCH), Load and Store of ormux_cpu drive
\* it is the bus cycle of cpu.Cpu: the same strobes, and for a driven cycle
\* the same address and byte lanes, and for a write the same data
SameBusCycle ==
    LET
        mem_bus_cyc ==
            IF state = "FETCH_INSTR" \/ Executing("Load") \/ Executing("Store") THEN 1 ELSE 0
        mem_bus_adr ==
            CASE state = "FETCH_INSTR" -> Slice(pc, 2, 32)
              [] Executing("Load") \/ Executing("Store") -> Slice(OrmuxDest, 2, 32)
              [] OTHER -> Zeros(30)
        mem_bus_we == IF Executing("Store") THEN 1 ELSE 0
        mem_bus_sel ==
            CASE state = "FETCH_INSTR" -> <<1, 1, 1, 1>>
              [] Executing("Load") \/ Executing("Store") ->
                    (CASE funct3(instr) \in {BYTE, BYTE_U} ->
                            ZeroExt(ShiftLeft(<<1>>, ToNat(Slice(OrmuxDest, 0, 2))), 4)
                       [] funct3(instr) \in {HALF, HALF_U} ->
                            ZeroExt(ShiftLeft(<<1, 1>>, 2 * OrmuxDest[2]), 4)
                       [] OTHER -> <<1, 1, 1, 1>>)
              [] OTHER -> <<0, 0, 0, 0>>
        mem_bus_dat_w ==
            IF Executing("Store") THEN
                CASE funct3(instr) = BYTE ->
                        Slice(rs2, 0, 8) \o Slice(rs2, 0, 8) \o Slice(rs2, 0, 8) \o Slice(rs2, 0, 8)
                  [] funct3(instr) = HALF -> Slice(rs2, 0, 16) \o Slice(rs2, 0, 16)
                  [] OTHER -> Slice(rs2, 0, 16) \o Slice(rs2, 16, 32)
            ELSE Zeros(xlen)
    IN  /\ mem_bus_cyc = BusCyc
        /\ mem_bus_we = BusWe
        /\ BusCyc = 1 => (mem_bus_adr = BusAdr /\ mem_bus_sel = BusSel)
        /\ BusWe = 1 => mem_bus_dat_w = BusDatW

ResetRegisters ==
    /\ state = "FETCH_INSTR"
    /\ pc = Zeros(xlen)
    /\ \A r \in 0..31 : regs[r] = Zeros(xlen)
    /\ cycle = Zeros(64)
    /\ instret = Zeros(64)

\* C31 as stated: in the reset state pc = 0, the state is FETCH, the 32
\* registers and the two counters are 0 and the bus is idle (cyc = stb = 0).
C31_ResetBusIdle ==
    IsZero(cycle) => ResetRegisters /\ BusCyc = 0 /\ BusStb = 0

\* C31, amended: in the reset state pc = 0, the state is FETCH, the 32
\* registers and the two counters are 0, and the bus already carries the
\* fetch of address 0: cyc = stb = 1, we = 0, adr = 0, sel = 1111, with no
\* ack yet.
C31_Reset ==
    IsZero(cycle) =>
        /\ ResetRegisters
        /\ BusCyc = 1 /\ BusStb = 1 /\ BusWe = 0
        /\ BusAdr = Zeros(30)
        /\ BusSel = <<1, 1, 1, 1>>
        /\ BusAck = 0

\* the first cycle after reset, the Rom selected by the fetch of address 0
C31_Witness ==
    /\ IsZero(cycle)
    /\ state = "FETCH_INSTR"
    /\ RomSelected
    /\ RomDoRead = 1


\* ------------------------------------------------------------------------
\* Zicntr: the values the counter CSRs read
\* ------------------------------------------------------------------------

\* the 32-bit half of a 64-bit counter that the CSR address names: bit 7 of
\* the address selects the upper half
CounterHalf(counter, addr) ==
    IF (addr \div 128) % 2 = 1 THEN Slice(counter, 32, 64) ELSE Slice(counter, 0, 32)

\* C32: a valid CSR read writes to rd the half of the counter its address
\* names, as the counter stands in the EXECUTE cycle of the instruction:
\* 0xC00 cycle[31:0], 0xC80 cycle[63:32], 0xC02 instret[31:0], 0xC82
\* instret[63:32], and 0xC01, 0xC81 (time) what 0xC00, 0xC80 give.
C32_CounterReads ==
    [][(IsCsrInstr /\ CsrValid /\ rd(instr) # 0) =>
          /\ CsrAddr \in {3072, 3073, 3074, 3200, 3201, 3202}
          /\ CsrAddr \in {3072, 3200} =>
                regs'[rd(instr)] = CounterHalf(cycle, CsrAddr)
          /\ CsrAddr \in {3074, 3202} =>
                regs'[rd(instr)] = CounterHalf(instret, CsrAddr)
          /\ CsrAddr \in {3073, 3201} =>
                regs'[rd(instr)] = CounterHalf(cycle, CsrAddr - 1)]_vars

\* csrrs x5, timeh, x0 in EXECUTE while the upper half of cycle is not 0 and
\* differs from the lower half
C32_Witness ==
    /\ IsCsrInstr
    /\ CsrValid
    /\ CsrAddr = 3201
    /\ rd(instr) = 5
    /\ ~IsZero(Slice(cycle, 32, 64))
    /\ Slice(cycle, 32, 64) # Slice(cycle, 0, 32)


\* ------------------------------------------------------------------------
\* Operands of back-to-back instructions
\* ------------------------------------------------------------------------

\* what the instruction w of HazardFirst, executed at address 0 right after
\* reset, writes to x5: its EXECUTE is the third cycle, where cycle = 2
FirstResult(w) ==
    CASE w = EncI(7, 0, 0, 5, OP_OP_IMM) -> Word(0, 7)
      [] w = EncU(74565, 5, OP_LUI) -> Word(4660, 20480)
      [] w = EncI(4, 0, WORD, 5, OP_LOAD) -> rom_mem[1]
      [] w = EncJ(4, 5) -> Word(0, 4)
      [] w = EncI(4, 0, 0, 5, OP_JALR) -> Word(0, 4)
      [] w = EncI(3072, 0, RS, 5, OP_SYSTEM) -> Word(0, 2)

\* C36: the rs1 and rs2 latched at the fetch ack of an instruction are the
\* registers as the instruction before it left them: in EXECUTE the latched
\* operands equal the register file, and an instruction at address 4 that
\* reads x5 has latched what the instruction at address 0 (an ALU
\* instruction, a load, a JAL, a JALR or a CSR read) wrote to x5.
C36_NoHazard ==
    state = "EXECUTE" =>
        /\ rs1 = regs[rs1f(instr)]
        /\ rs2 = regs[rs2f(instr)]
        /\ (pc = Word(0, 4) /\ rom_mem[0] \in HazardFirst) =>
              /\ instr = rom_mem[1]
              /\ rs1f(instr) = 5 => rs1 = FirstResult(rom_mem[0])
              /\ rs2f(instr) = 5 => rs2 = FirstResult(rom_mem[0])

\* sw x5, 0(x5) in EXECUTE right after lw x5, 4(x0): both operands are the
\* loaded word, which is the sw itself
C36_Witness ==
    /\ state = "EXECUTE"
    /\ pc = Word(0, 4)
    /\ rom_mem[0] = EncI(4, 0, WORD, 5, OP_LOAD)
    /\ instr = EncS(0, 5, 5, WORD)
    /\ rs1 = instr
    /\ rs2 = instr


\* ------------------------------------------------------------------------
\* Instructions reported as invalid
\* ------------------------------------------------------------------------

\* C37: an instruction reported as invalid (is_valid_instruction = 0 in
\* EXECUTE: an unrecognized funct3 or funct7 of OP, OP_IMM, LOAD, STORE,
\* JALR or BRANCH, an unknown opcode, an invalid CSR access) changes no
\* register and no memory word.
C37_InvalidNoEffect ==
    [][(state = "EXECUTE" /\ ~is_valid_instruction) =>
          /\ regs' = regs
          /\ ram_mem' = ram_mem
          /\ rom_mem' = rom_mem]_vars


\* ------------------------------------------------------------------------
\* Instructions without a destination register
\* ------------------------------------------------------------------------

\* C39: no edge of the EXECUTE of a BRANCH or a STORE changes a register,
\* whatever bits 11:7 of the word (the rd field of other formats) hold and
\* whether or not the branch is taken.
C39_NoRdWrite ==
    [][(state = "EXECUTE" /\ op(instr) \in {OP_BRANCH, OP_STORE}) => regs' = regs]_vars

\* a taken branch whose bits 11:7 name x3, with a non-zero ALU result
C39_Witness ==
    /\ state = "EXECUTE"
    /\ op(instr) = OP_BRANCH
    /\ BranchTaken
    /\ rd(instr) = 3
    /\ ~IsZero(alu_out)


\* ------------------------------------------------------------------------
\* When the Ram changes
\* ------------------------------------------------------------------------

\* C38: the Ram's write port is enabled exactly on the edge that completes
\* the EXECUTE of a store addressed to the Ram, with the Ram in WRITE; that
\* edge changes at most the addressed word, and no other edge (a fetch, a
\* load, an instruction without bus access, the stall cycle of the store)
\* changes a word of the Ram or has we asserted outside a store.
C38_RamFrame ==
    [][/\ RamWriteEn <=>
             /\ state = "EXECUTE" /\ op(instr) = OP_STORE
             /\ RamSelected /\ BusAck = 1
       /\ RamWriteEn =>
             /\ ram_state = "WRITE"
             /\ state' = "FETCH_INSTR"
             /\ \A a \in 0..(RamDepth - 1) :
                    a # RamAdr => ram_mem'[a] = ram_mem[a]
       /\ ~RamWriteEn => ram_mem' = ram_mem
       /\ (state = "FETCH_INSTR" \/ op(instr) # OP_STORE) => BusWe = 0]_vars

\* sw x2, 0(x1) completing: the Ram in WRITE is about to replace 0xa55a3cc3
\* at 0x10000000 by 0xfffffedd
C38_Witness ==
    /\ RamWriteEn
    /\ instr = EncS(0, 2, 1, WORD)
    /\ RamAdr = 0
    /\ ram_mem[0] = Word(42330, 15555)
    /\ BusDatW = Word(65535, 65245)


\* ------------------------------------------------------------------------
\* Cycles per instruction
\* ------------------------------------------------------------------------

\* the address on the bus is in the window of the Rom or of the Ram
Mapped == RomSelected \/ RamSelected

\* at least n more edges are explored from this state
TicksLeft(n) ==
    IsZero(Slice(cycle, 16, 64)) /\ ToNat(Slice(cycle, 0, 16)) + n <= MaxTicks

\* C40: with the access addressed to the Rom or the Ram, a FETCH lasts
\* exactly 2 cycles (one without ack, one with), the EXECUTE of a load or
\* store exactly 2 cycles (one without ack, one with) and the EXECUTE of any
\* other instruction exactly 1, so an instruction takes at most 4 cycles and
\* from EXECUTE the core always comes back to FETCH.
C40_Timing ==
    /\ IsZero(cycle) => BusAck = 0
    /\ [][/\ (state = "EXECUTE" /\ state' = "FETCH_INSTR" /\ Mapped') => BusAck' = 0
          /\ (state = "FETCH_INSTR" /\ Mapped /\ BusAck = 0) =>
                state' = "FETCH_INSTR" /\ pc' = pc /\ BusAck' = 1
          /\ (state = "FETCH_INSTR" /\ BusAck = 1) =>
                /\ state' = "EXECUTE"
                /\ (IsMemOp' /\ Mapped') => BusAck' = 0
          /\ (IsMemOp /\ Mapped /\ BusAck = 0) =>
                state' = "EXECUTE" /\ instr' = instr /\ BusAdr' = BusAdr /\ BusAck' = 1
          /\ (IsMemOp /\ BusAck = 1) => state' = "FETCH_INSTR"
          /\ (state = "EXECUTE" /\ ~IsMemOp) => state' = "FETCH_INSTR"]_vars
    /\ (state = "EXECUTE" /\ (IsMemOp => Mapped) /\ TicksLeft(2)) ~> state = "FETCH_INSTR"

\* the third instruction of a program, a store to the Ram, completes in
\* cycle 9: 3 cycles for each of the two instructions before it, 2 for its
\* fetch and 2 in EXECUTE
C40_Witness ==
    /\ state = "EXECUTE"
    /\ op(instr) = OP_STORE
    /\ RamSelected
    /\ BusAck = 1
    /\ pc = Word(0, 8)
    /\ cycle = FromNat(9, 64)


\* ------------------------------------------------------------------------
\* risky/ormux_cpu.py: the providers on the one-hot-muxed busses
\* ------------------------------------------------------------------------

\* the components that drive ib.valid: those of Rv32i and Zicsr
Providers ==
    {"LUI", "AUIPC", "JAL", "JALR", "Load", "Store", "Branch", "OpImm", "Op",
     "EBREAK", "Zicsr"}

\* ib.valid of the component u for the instruction word w: its method
\* always, and for Zicsr csr_bus.valid as Zicntr drives it from the address
ProviderValid(u, w) ==
    LET o == op(w)
        f3 == funct3(w)
        f7 == funct7(w)
    IN  \/ u = "LUI" /\ o = OP_LUI
        \/ u = "AUIPC" /\ o = OP_AUIPC
        \/ u = "JAL" /\ o = OP_JAL
        \/ u = "JALR" /\ o = OP_JALR /\ f3 = 0
        \/ u = "Branch" /\ o = OP_BRANCH /\ f3 \in {0, 1, 4, 5, 6, 7}
        \/ u = "Load" /\ o = OP_LOAD /\ f3 \in {BYTE, HALF, WORD, BYTE_U, HALF_U}
        \/ u = "Store" /\ o = OP_STORE /\ f3 \in {BYTE, HALF, WORD}
        \/ u = "OpImm" /\ o = OP_OP_IMM
              /\ CASE f3 = 1 -> f7 = NORMAL
                   [] f3 = 5 -> f7 = NORMAL \/ f7 = ALT
                   [] OTHER -> TRUE
        \/ u = "Op" /\ o = OP_OP
              /\ IF f3 \in {0, 5} THEN f7 = NORMAL \/ f7 = ALT ELSE f7 = NORMAL
        \/ u = "EBREAK" /\ w = EBREAK
        \/ u = "Zicsr" /\ o = OP_SYSTEM /\ f3 \in {RW, RS, RC, RWI, RSI, RCI}
              /\ ToNat(Slice(w, 20, 32)) \in {3072, 3073, 3074, 3200, 3201, 3202}

\* every output of a provider at 0: those of the instruction bus, of the
\* memory bus and of the ALU bus, each as a bit vector
ZeroOut ==
    [rd_data |-> Zeros(xlen), rd_stb |-> <<0>>,
     j_addr |-> Zeros(xlen), j_rel |-> <<0>>, j_en |-> <<0>>, wait |-> <<0>>,
     mem_adr |-> Zeros(30), mem_cyc |-> <<0>>, mem_stb |-> <<0>>, mem_we |-> <<0>>,
     mem_sel |-> <<0, 0, 0, 0>>, mem_dat_w |-> Zeros(xlen),
     alu_in1 |-> Zeros(xlen), alu_in2 |-> Zeros(xlen),
     alu_op |-> <<0, 0, 0>>, alu_alt |-> <<0>>]

\* what the method execute of the component u drives for instr
ProviderExecute(u) ==
    LET f3 == funct3(instr)
        alt == <<IF funct7(instr) # NORMAL THEN 1 ELSE 0>>
        ack == BusAck
        ldest == Add32(rs1, imm_i(instr))
        sdest == Add32(rs1, imm_s(instr))
        sel(dest) ==
            CASE f3 \in {BYTE, BYTE_U} -> ZeroExt(ShiftLeft(<<1>>, ToNat(Slice(dest, 0, 2))), 4)
              [] f3 \in {HALF, HALF_U} -> ZeroExt(ShiftLeft(<<1, 1>>, 2 * dest[2]), 4)
              [] OTHER -> <<1, 1, 1, 1>>
    IN  CASE u = "LUI" ->
                [ZeroOut EXCEPT !.rd_data = imm_u(instr), !.rd_stb = <<1>>]
          [] u = "AUIPC" ->
                [ZeroOut EXCEPT !.j_addr = imm_u(instr), !.j_rel = <<1>>,
                                !.rd_data = ib_pc_jump, !.rd_stb = <<1>>]
          [] u = "JAL" ->
                [ZeroOut EXCEPT !.rd_data = ib_pc_next, !.rd_stb = <<1>>,
                                !.j_addr = imm_j(instr), !.j_rel = <<1>>, !.j_en = <<1>>]
          [] u = "JALR" ->
                [ZeroOut EXCEPT !.rd_data = ib_pc_next, !.rd_stb = <<1>>,
                                !.j_addr = <<0>> \o Slice(ldest, 1, 32), !.j_en = <<1>>]
          [] u = "Branch" ->
                [ZeroOut EXCEPT
                    !.alu_in1 = rs1, !.alu_in2 = rs2,
                    !.j_addr = imm_b(instr), !.j_rel = <<1>>,
                    !.alu_op = CASE f3 \in {0, 1} -> FromNat(0, 3)
                                 [] f3 \in {4, 5} -> FromNat(2, 3)
                                 [] f3 \in {6, 7} -> FromNat(3, 3)
                                 [] OTHER -> FromNat(0, 3),
                    !.alu_alt = <<IF f3 \in {0, 1} THEN 1 ELSE 0>>,
                    !.j_en = CASE f3 = 0 -> <<IF IsZero(alu_bus_out) THEN 1 ELSE 0>>
                               [] f3 = 1 -> <<IF IsZero(alu_bus_out) THEN 0 ELSE 1>>
                               [] f3 \in {4, 6} -> <<alu_bus_out[1]>>
                               [] f3 \in {5, 7} -> <<1 - alu_bus_out[1]>>
                               [] OTHER -> <<0>>]
          [] u = "Load" ->
                [ZeroOut EXCEPT
                    !.mem_adr = Slice(ldest, 2, 32), !.mem_cyc = <<1>>, !.mem_stb = <<1>>,
                    !.mem_sel = sel(ldest),
                    !.rd_data = IF ack = 1 THEN OrmuxLoadData(BusDatR) ELSE Zeros(xlen),
                    !.rd_stb = <<ack>>,
                    !.wait = <<1 - ack>>]
          [] u = "Store" ->
                [ZeroOut EXCEPT
                    !.mem_adr = Slice(sdest, 2, 32), !.mem_cyc = <<1>>, !.mem_stb = <<1>>,
                    !.mem_we = <<1>>,
                    !.wait = <<1 - ack>>,
                    !.mem_sel = sel(sdest),
                    !.mem_dat_w =
                        CASE f3 = BYTE -> Slice(rs2, 0, 8) \o Slice(rs2, 0, 8)
                                            \o Slice(rs2, 0, 8) \o Slice(rs2, 0, 8)
                          [] f3 = HALF -> Slice(rs2, 0, 16) \o Slice(rs2, 0, 16)
                          [] OTHER -> Slice(rs2, 0, 16) \o Slice(rs2, 16, 32)]
          [] u = "OpImm" ->
                [ZeroOut EXCEPT
                    !.alu_in1 = rs1,
                    !.alu_in2 = IF f3 \in {1, 5}
                                THEN ZeroExt(Slice(instr, 20, 25), xlen)
                                ELSE imm_i(instr),
                    !.alu_op = FromNat(f3, 3),
                    !.alu_alt = IF f3 \in {1, 5} THEN alt ELSE <<0>>,
                    !.rd_data = alu_bus_out, !.rd_stb = <<1>>]
          [] u = "Op" ->
                [ZeroOut EXCEPT
                    !.alu_in1 = rs1, !.alu_in2 = rs2,
                    !.alu_op = FromNat(f3, 3), !.alu_alt = alt,
                    !.rd_data = alu_bus_out, !.rd_stb = <<1>>]
          [] u = "EBREAK" -> [ZeroOut EXCEPT !.wait = <<1>>]
          [] u = "Zicsr" -> [ZeroOut EXCEPT !.rd_data = CsrReadData, !.rd_stb = <<1>>]

\* variant: the outputs are driven whether or not valid is asserted
ProviderOut_Ungated(u) == ProviderExecute(u)

\* the outputs of the component u: those of execute under ib.valid &
\* ib.execute, 0 otherwise
ProviderOut(u) ==
    IF ProviderValid(u, instr) /\ state = "EXECUTE" THEN ProviderExecute(u) ELSE ZeroOut

\* the bitwise OR of a set of bit vectors of the same length
OrAll(S) ==
    LET n == Len(CHOOSE v \in S : TRUE)
    IN  SubSeq([i \in 1..n |-> IF \E v \in S : v[i] = 1 THEN 1 ELSE 0], 1, n)

\* C33: for every instruction word at most one provider asserts valid;
\* every provider that does not assert valid drives all its outputs on the
\* instruction bus, the memory bus and the ALU bus to 0; so the OR of the
\* providers' outputs, signal by signal, is the output of the one valid
\* provider.
C33_OneHot ==
    \A outs \in {[u \in Providers |-> ProviderOut(u)]} :
        /\ Cardinality({u \in Providers : ProviderValid(u, instr)}) <= 1
        /\ \A u \in Providers :
               IF ProviderValid(u, instr)
               THEN /\ \A f \in DOMAIN ZeroOut :
                           OrAll({outs[v][f] : v \in Providers}) = outs[u][f]
                    /\ u = OrmuxUnit \/ u = "Zicsr"
               ELSE outs[u] = ZeroOut

\* a taken branch in EXECUTE: the Branch component drives both ALU inputs,
\* j_addr, j_rel and j_en
C33_Witness ==
    /\ state = "EXECUTE"
    /\ ProviderValid("Branch", instr)
    /\ ProviderOut("Branch").j_en = <<1>>
    /\ ~IsZero(ProviderOut("Branch").alu_in1)
    /\ ~IsZero(ProviderOut("Branch").alu_in2)
    /\ ~IsZero(ProviderOut("Branch").j_addr)


\* ------------------------------------------------------------------------
\* The SHA1 device
\* ------------------------------------------------------------------------

\* C34: a data_stb while ready takes ready low on the next cycle; ready
\* then stays low for exactly 81 cycles, the 80 BUSY rounds 0..79 and one
\* FINISH cycle, and is high again after that; the device always comes back
\* to ready; and while ready is low the next data, round, state and hash do
\* not depend on data_stb (nor on data_in and initialize).
C34_Sha1Busy ==
    /\ [][/\ Sha1Ready = 1 =>
                /\ \A din \in Sha1Chunks, init \in Bit :
                       /\ Sha1Step(1, din, init).state = "BUSY"
                       /\ Sha1Step(1, din, init).round = 0
                /\ sha1'.state = "BUSY" /\ sha1'.round = 0
          /\ sha1.state = "BUSY" =>
                /\ sha1.round < 80
                /\ sha1'.round = sha1.round + 1
                /\ sha1'.state = IF sha1.round = 79 THEN "FINISH" ELSE "BUSY"
          /\ sha1.state = "FINISH" =>
                /\ sha1.round = 80
                /\ sha1'.state = "IDLE"
                /\ sha1'.data = sha1.data
          /\ Sha1Ready = 0 =>
                \A din \in Sha1Chunks, init \in Bit :
                    Sha1Step(1, din, init) = sha1']_vars
    /\ (Sha1Ready = 0) ~> (Sha1Ready = 1)

\* the FINISH cycle of a second chunk given without initialize: the 81st
\* cycle with ready low, round = 80
C34_Witness ==
    /\ sha1.state = "FINISH"
    /\ sha1.round = 80
    /\ sha1.chunks = 2
    /\ sha1.hash # Sha1InitHash

\* ------------------------------------------------------------------------
\* The transmitter of the unbuffered UART
\* ------------------------------------------------------------------------

\* the number of clock cycles until the next baud tick: 0 on the tick
UartPhase == ToNat(Slice(Inc(uart.count), 0, 16))

====
